---- MODULE Spec2Model ----
(***************************************************************************)
(* Environment config mapper (packages/config): config-base.ts and the     *)
(* config half of settings-base.ts.                                        *)
(*                                                                         *)
(* Representation.                                                         *)
(*  - A JavaScript string is a sequence of one-character strings, so that  *)
(*    startsWith, slice, toUpperCase, toLowerCase, endsWith and replace    *)
(*    are computed character by character as the code computes them.       *)
(*  - A JavaScript value is a record [t, v]: t is the typeof tag and v the *)
(*    payload, always a sequence of characters: the string itself, the     *)
(*    canonical decimal digits of a number, "true" or "false", or <<>>     *)
(*    for null and undefined.                                              *)
(*  - A plain object (Record<string, unknown>, process.env) is a sequence  *)
(*    of entries [k, v] with pairwise distinct keys, in insertion order,   *)
(*    which is the order Object.entries iterates non-index keys in.        *)
(***************************************************************************)
EXTENDS Integers, Sequences, FiniteSets, TLC

VARIABLES
    env,        \* process.env
    schema,     \* the Zod schema object the caller holds
    config,     \* the config object the caller hands to the two view operations
    call,       \* the operation performed last, with the arguments as passed
    envValues,  \* the local envValues of the last fromEnv (config-base.ts:75)
    ret,        \* what the last operation returned or threw
    rootLogger,   \* let rootLogger (settings-base.ts:86)
    loggerLevels, \* let loggerLevels (settings-base.ts:89)
    loggers,      \* the loggers getLogger has returned, oldest first
    files,        \* the files of the file system, by path
    stderr        \* what the last configureLogging wrote to process.stderr

loggingVars == <<rootLogger, loggerLevels, loggers, files, stderr>>

vars == <<env, schema, config, call, envValues, ret,
          rootLogger, loggerLevels, loggers, files, stderr>>

----------------------------------------------------------------------------
(* Bounds of the explored state space.                                     *)

\* Largest number of variables in process.env.
MaxEnv == 2

\* Largest number of entries of a config object drawn as a view input.
MaxKeys == 2

\* Longest secret string drawn as a view input.
MaxStrLen == 6

\* Largest number of root loggers configureLogging constructs in a run.
MaxRoots == 2

\* Largest number of returned loggers the model keeps track of.
MaxLoggers == 1

----------------------------------------------------------------------------
(* JavaScript values.                                                      *)

Str(s) == [t |-> "string", v |-> s]
Num(digits) == [t |-> "number", v |-> digits]
Bool(b) ==
    [t |-> "boolean",
     v |-> IF b THEN <<"t", "r", "u", "e">> ELSE <<"f", "a", "l", "s", "e">>]
Null == [t |-> "null", v |-> <<>>]
Undefined == [t |-> "undefined", v |-> <<>>]
EmptyObject == [t |-> "object", v |-> <<>>]

\* What an operation did: returned a value, or threw one.
Return(x) == [kind |-> "return", value |-> x]
Throw(e) == [kind |-> "throw", value |-> e]
NoResult == [kind |-> "none", value |-> <<>>]

----------------------------------------------------------------------------
(* String primitives.                                                      *)

LowerAlpha ==
    <<"a", "b", "c", "d", "e", "f", "g", "h", "i", "j", "k", "l", "m",
      "n", "o", "p", "q", "r", "s", "t", "u", "v", "w", "x", "y", "z">>

UpperAlpha ==
    <<"A", "B", "C", "D", "E", "F", "G", "H", "I", "J", "K", "L", "M",
      "N", "O", "P", "Q", "R", "S", "T", "U", "V", "W", "X", "Y", "Z">>

DigitChars == <<"0", "1", "2", "3", "4", "5", "6", "7", "8", "9">>

\* The case mappings of the ASCII letters, as tables.
LowerOf ==
    [c \in {UpperAlpha[i] : i \in 1..26} |->
        LowerAlpha[CHOOSE i \in 1..26 : UpperAlpha[i] = c]]

UpperOf ==
    [c \in {LowerAlpha[i] : i \in 1..26} |->
        UpperAlpha[CHOOSE i \in 1..26 : LowerAlpha[i] = c]]

Digits == {DigitChars[d] : d \in 1..10}

toLowerChar(c) == IF c \in DOMAIN LowerOf THEN LowerOf[c] ELSE c
toUpperChar(c) == IF c \in DOMAIN UpperOf THEN UpperOf[c] ELSE c

\* String.prototype.toLowerCase / toUpperCase
toLowerCase(s) == [i \in 1..Len(s) |-> toLowerChar(s[i])]
toUpperCase(s) == [i \in 1..Len(s) |-> toUpperChar(s[i])]

\* String.prototype.startsWith / endsWith
startsWith(s, p) == Len(p) <= Len(s) /\ SubSeq(s, 1, Len(p)) = p
endsWith(s, p) == Len(p) <= Len(s) /\ SubSeq(s, Len(s) - Len(p) + 1, Len(s)) = p

\* s.slice(n) for n >= 0, s.slice(0, n) for n >= 0, and s.slice(-n) for n > 0
sliceFrom(s, n) == SubSeq(s, n + 1, Len(s))
sliceTo(s, n) == SubSeq(s, 1, IF n < Len(s) THEN n ELSE Len(s))
sliceLast(s, n) == SubSeq(s, (IF Len(s) - n > 0 THEN Len(s) - n ELSE 0) + 1, Len(s))

----------------------------------------------------------------------------
(* Plain objects.                                                          *)

Keys(obj) == {obj[i].k : i \in 1..Len(obj)}
Has(obj, k) == \E i \in 1..Len(obj) : obj[i].k = k
Get(obj, k) ==
    IF Has(obj, k) THEN obj[CHOOSE i \in 1..Len(obj) : obj[i].k = k].v ELSE Undefined

\* obj[k] = v: an existing key keeps its place, a new key goes last.
Put(obj, k, v) ==
    IF Has(obj, k)
    THEN [i \in 1..Len(obj) |-> IF obj[i].k = k THEN [k |-> k, v |-> v] ELSE obj[i]]
    ELSE Append(obj, [k |-> k, v |-> v])

\* The mapping an object denotes, whatever the order of its entries.
AsMap(obj) == {<<obj[i].k, obj[i].v>> : i \in 1..Len(obj)}

----------------------------------------------------------------------------
(* config-base.ts: sensitive keys and masking.                             *)

SENSITIVE_POSTFIXES ==
    << <<"p", "a", "s", "s", "w", "o", "r", "d">>,
       <<"p", "w">>,
       <<"k", "e", "y">>,
       <<"s", "e", "c", "r", "e", "t">>,
       <<"c", "r", "e", "d", "e", "n", "t", "i", "a", "l", "s">> >>

\* Variant that forgets toLowerCase.
isSensitiveCaseSensitive(key) ==
    \E i \in 1..Len(SENSITIVE_POSTFIXES) : endsWith(key, SENSITIVE_POSTFIXES[i])

isSensitive(key) ==
    LET keyLower == toLowerCase(key)
    IN  \E i \in 1..Len(SENSITIVE_POSTFIXES) : endsWith(keyLower, SENSITIVE_POSTFIXES[i])

NOT_SET == <<"<", "n", "o", "t", " ", "s", "e", "t", ">">>
MASKED == <<"*", "*", "*", "*">>
ELLIPSIS == <<".", ".", ".">>

\* Variant that tests typeof value first: null and undefined are masked
\* like any other non-string.
maskValueTypeFirst(value) ==
    IF value.t # "string"
    THEN MASKED
    ELSE IF value.v = <<>>
    THEN NOT_SET
    ELSE IF Len(value.v) <= 4
    THEN MASKED
    ELSE sliceTo(value.v, 2) \o ELLIPSIS \o sliceLast(value.v, 2)

\* Variant whose length test is off by one (value.length < 4).
maskValueOffByOne(value) ==
    IF value.t \in {"null", "undefined"} \/ (value.t = "string" /\ value.v = <<>>)
    THEN NOT_SET
    ELSE IF value.t # "string"
    THEN MASKED
    ELSE IF Len(value.v) < 4
    THEN MASKED
    ELSE sliceTo(value.v, 2) \o ELLIPSIS \o sliceLast(value.v, 2)

\* Variant whose marker for a short string has the string's length.
maskValueLengthMarker(value) ==
    IF value.t \in {"null", "undefined"} \/ (value.t = "string" /\ value.v = <<>>)
    THEN NOT_SET
    ELSE IF value.t # "string"
    THEN MASKED
    ELSE IF Len(value.v) <= 4
    THEN [i \in 1..Len(value.v) |-> "*"]
    ELSE sliceTo(value.v, 2) \o ELLIPSIS \o sliceLast(value.v, 2)

\* maskValue returns a string (the characters; the caller stores a string value).
maskValue(value) ==
    IF value.t \in {"null", "undefined"} \/ (value.t = "string" /\ value.v = <<>>)
    THEN NOT_SET
    ELSE IF value.t # "string"
    THEN MASKED
    ELSE IF Len(value.v) <= 4
    THEN MASKED
    ELSE sliceTo(value.v, 2) \o ELLIPSIS \o sliceLast(value.v, 2)

----------------------------------------------------------------------------
(* config-base.ts: field-name derivation.                                  *)
(*                                                                         *)
(* new RegExp(separator, "g") reads the separator as a pattern.  Modelled  *)
(* patterns: any sequence of ordinary characters and ".", which matches    *)
(* any one character (no line terminator occurs in a name), the empty      *)
(* pattern, which matches the empty string at every position, and the      *)
(* one-character patterns the RegExp constructor rejects.                  *)

DEFAULT_SEPARATOR == <<"_">>

RejectedPatterns == {"(", ")", "[", "*", "+", "?", "\\"}

\* Thrown values: the error's name and, for a ZodError, the offending paths.
SyntaxError == [name |-> "SyntaxError", issues |-> <<>>]
ZodError(issues) == [name |-> "ZodError", issues |-> issues]

RegExpThrows(pattern) == Len(pattern) = 1 /\ pattern[1] \in RejectedPatterns

matchesAt(s, pattern, i) ==
    /\ i + Len(pattern) - 1 <= Len(s)
    /\ \A j \in 1..Len(pattern) : pattern[j] = "." \/ pattern[j] = s[i + j - 1]

\* s.replace(new RegExp(pattern, "g"), "_") from index i on: leftmost matches,
\* left to right, without overlap.
RECURSIVE replaceFrom(_, _, _)
replaceFrom(s, pattern, i) ==
    IF Len(pattern) = 0
    THEN IF i > Len(s) THEN <<"_">> ELSE <<"_", s[i]>> \o replaceFrom(s, pattern, i + 1)
    ELSE IF i > Len(s)
    THEN <<>>
    ELSE IF matchesAt(s, pattern, i)
    THEN <<"_">> \o replaceFrom(s, pattern, i + Len(pattern))
    ELSE <<s[i]>> \o replaceFrom(s, pattern, i + 1)

\* Variant that forgets toLowerCase.
toFieldNameKeepingCase(envKey, separator) ==
    IF separator = DEFAULT_SEPARATOR
    THEN Return(envKey)
    ELSE IF RegExpThrows(separator)
    THEN Throw(SyntaxError)
    ELSE Return(replaceFrom(envKey, separator, 1))

toFieldName(envKey, separator) ==
    IF separator = DEFAULT_SEPARATOR
    THEN Return(toLowerCase(envKey))
    ELSE IF RegExpThrows(separator)
    THEN Throw(SyntaxError)
    ELSE Return(toLowerCase(replaceFrom(envKey, separator, 1)))

----------------------------------------------------------------------------
(* config-base.ts: collecting the candidate mapping.                       *)

\* Variant of the loop whose second branch is a plain else: a variable that
\* does not carry the prefix is kept under its whole name.
RECURSIVE collectLoopUnfiltered(_, _, _, _, _)
collectLoopUnfiltered(entries, prefixUpper, separator, i, acc) ==
    IF i > Len(entries)
    THEN Return(acc)
    ELSE LET envKey == entries[i].k
             envValue == entries[i].v
             name == IF prefixUpper # <<>> /\ startsWith(envKey, prefixUpper)
                     THEN toFieldName(sliceFrom(envKey, Len(prefixUpper)), separator)
                     ELSE toFieldName(envKey, separator)
         IN  IF envValue.t = "undefined"
             THEN collectLoopUnfiltered(entries, prefixUpper, separator, i + 1, acc)
             ELSE IF name.kind = "throw"
             THEN name
             ELSE collectLoopUnfiltered(entries, prefixUpper, separator, i + 1,
                                        Put(acc, name.value, envValue))

\* Variant that compares the upper-cased name with the upper-cased prefix.
RECURSIVE collectLoopIgnoringCase(_, _, _, _, _)
collectLoopIgnoringCase(entries, prefixUpper, separator, i, acc) ==
    IF i > Len(entries)
    THEN Return(acc)
    ELSE LET envKey == entries[i].k
             envValue == entries[i].v
             name == toFieldName(sliceFrom(envKey, Len(prefixUpper)), separator)
         IN  IF envValue.t = "undefined" \/ ~startsWith(toUpperCase(envKey), prefixUpper)
             THEN collectLoopIgnoringCase(entries, prefixUpper, separator, i + 1, acc)
             ELSE IF name.kind = "throw"
             THEN name
             ELSE collectLoopIgnoringCase(entries, prefixUpper, separator, i + 1,
                                          Put(acc, name.value, envValue))

\* Variant that keeps the first value assigned to a field name.
RECURSIVE collectLoopFirstWins(_, _, _, _, _)
collectLoopFirstWins(entries, prefixUpper, separator, i, acc) ==
    IF i > Len(entries)
    THEN Return(acc)
    ELSE LET envKey == entries[i].k
             envValue == entries[i].v
             name == IF prefixUpper # <<>>
                     THEN toFieldName(sliceFrom(envKey, Len(prefixUpper)), separator)
                     ELSE toFieldName(envKey, separator)
         IN  IF envValue.t = "undefined" \/ ~startsWith(envKey, prefixUpper)
             THEN collectLoopFirstWins(entries, prefixUpper, separator, i + 1, acc)
             ELSE IF name.kind = "throw"
             THEN name
             ELSE IF Has(acc, name.value)
             THEN collectLoopFirstWins(entries, prefixUpper, separator, i + 1, acc)
             ELSE collectLoopFirstWins(entries, prefixUpper, separator, i + 1,
                                       Put(acc, name.value, envValue))

\* Variant that matches the prefix at a segment boundary only: the name is
\* the prefix, or the prefix is followed by "_".
RECURSIVE collectLoopAtBoundary(_, _, _, _, _)
collectLoopAtBoundary(entries, prefixUpper, separator, i, acc) ==
    IF i > Len(entries)
    THEN Return(acc)
    ELSE LET envKey == entries[i].k
             envValue == entries[i].v
             stripped == toFieldName(sliceFrom(envKey, Len(prefixUpper)), separator)
             whole == toFieldName(envKey, separator)
             atBoundary == \/ Len(envKey) = Len(prefixUpper)
                           \/ prefixUpper[Len(prefixUpper)] = "_"
                           \/ envKey[Len(prefixUpper) + 1] = "_"
         IN  IF envValue.t = "undefined"
             THEN collectLoopAtBoundary(entries, prefixUpper, separator, i + 1, acc)
             ELSE IF prefixUpper # <<>> /\ startsWith(envKey, prefixUpper) /\ atBoundary
             THEN IF stripped.kind = "throw"
                  THEN stripped
                  ELSE collectLoopAtBoundary(entries, prefixUpper, separator, i + 1,
                                             Put(acc, stripped.value, envValue))
             ELSE IF prefixUpper = <<>>
             THEN IF whole.kind = "throw"
                  THEN whole
                  ELSE collectLoopAtBoundary(entries, prefixUpper, separator, i + 1,
                                             Put(acc, whole.value, envValue))
             ELSE collectLoopAtBoundary(entries, prefixUpper, separator, i + 1, acc)

\* The for loop of collectEnvValues from entry i on, envValues being acc.
\* The result is the loop's outcome: the finished object, or what
\* toFieldName threw.
RECURSIVE collectLoop(_, _, _, _, _)
collectLoop(entries, prefixUpper, separator, i, acc) ==
    IF i > Len(entries)
    THEN Return(acc)
    ELSE LET envKey == entries[i].k
             envValue == entries[i].v
             stripped == toFieldName(sliceFrom(envKey, Len(prefixUpper)), separator)
             whole == toFieldName(envKey, separator)
         IN  IF envValue.t = "undefined"
             THEN collectLoop(entries, prefixUpper, separator, i + 1, acc)
             ELSE IF prefixUpper # <<>> /\ startsWith(envKey, prefixUpper)
             THEN IF stripped.kind = "throw"
                  THEN stripped
                  ELSE collectLoop(entries, prefixUpper, separator, i + 1,
                                   Put(acc, stripped.value, envValue))
             ELSE IF prefixUpper = <<>>
             THEN IF whole.kind = "throw"
                  THEN whole
                  ELSE collectLoop(entries, prefixUpper, separator, i + 1,
                                   Put(acc, whole.value, envValue))
             ELSE collectLoop(entries, prefixUpper, separator, i + 1, acc)

\* Variant that forgets prefix.toUpperCase().
collectEnvValuesPrefixAsGiven(processEnv, prefix, separator) ==
    collectLoop(processEnv, prefix, separator, 1, <<>>)

collectEnvValues(processEnv, prefix, separator) ==
    collectLoop(processEnv, toUpperCase(prefix), separator, 1, <<>>)

----------------------------------------------------------------------------
(* The strings of the schemas, the documentation and the tests.            *)

HOST_F == <<"h", "o", "s", "t">>
PORT_F == <<"p", "o", "r", "t">>
DEBUG_F == <<"d", "e", "b", "u", "g">>
API_KEY_F == <<"a", "p", "i", "_", "k", "e", "y">>
MODEL_F == <<"m", "o", "d", "e", "l">>
LOCALHOST == <<"l", "o", "c", "a", "l", "h", "o", "s", "t">>
GPT4 == <<"g", "p", "t", "-", "4">>
FALSE_S == <<"f", "a", "l", "s", "e">>
N6379 == <<"6", "3", "7", "9">>
N8080 == <<"8", "0", "8", "0">>

----------------------------------------------------------------------------
(* The schema capability (zod), as far as the schemas of this repository   *)
(* use it: z.object of fields that are z.string(), z.coerce.number() or    *)
(* z.string().transform(truthy), each with or without .default(), in       *)
(* strip mode or .passthrough().                                           *)

Field(name, type, default) == [name |-> name, type |-> type, default |-> default]

\* README.md:94-97
RedisConfigSchema ==
    [shape |-> << Field(HOST_F, "string", Str(LOCALHOST)),
                  Field(PORT_F, "coerceNumber", Num(N6379)) >>,
     unknownKeys |-> "strip"]

\* config-base.test.ts:5-12, with .passthrough() as at lines 45 and 56
SamplePassthroughSchema ==
    [shape |-> << Field(HOST_F, "string", Str(LOCALHOST)),
                  Field(PORT_F, "coerceNumber", Num(N8080)),
                  Field(DEBUG_F, "stringToBool", Str(FALSE_S)) >>,
     unknownKeys |-> "passthrough"]

\* ADR-001: api_key is required, model has a default
OpenAIConfigSchema ==
    [shape |-> << Field(API_KEY_F, "string", Undefined),
                  Field(MODEL_F, "string", Str(GPT4)) >>,
     unknownKeys |-> "strip"]

Schemas == {RedisConfigSchema, SamplePassthroughSchema, OpenAIConfigSchema}

\* Variant that misses the first declared key.
shapeKeysButFirst(sch) == {sch.shape[i].name : i \in 2..Len(sch.shape)}

shapeKeys(sch) == {sch.shape[i].name : i \in 1..Len(sch.shape)}

isDigits(s) == \A i \in 1..Len(s) : s[i] \in Digits

RECURSIVE canonicalDigits(_)
canonicalDigits(s) ==
    IF s = <<>> THEN <<"0">>
    ELSE IF Len(s) > 1 /\ s[1] = "0" THEN canonicalDigits(Tail(s))
    ELSE s

\* Number(x) for the values of the model: a string of decimal digits (the
\* empty string is 0), a string holding a letter (NaN), a number, undefined (NaN).
NaN == [t |-> "number", v |-> <<"N", "a", "N">>]
jsNumber(x) ==
    IF x.t = "number" THEN x
    ELSE IF x.t = "string" /\ isDigits(x.v) THEN Num(canonicalDigits(x.v))
    ELSE IF x.t = "null" THEN Num(<<"0">>)
    ELSE IF x.t = "boolean" THEN Num(IF x = Bool(TRUE) THEN <<"1">> ELSE <<"0">>)
    ELSE NaN

TRUTHY == {<<"t", "r", "u", "e">>, <<"1">>, <<"y", "e", "s">>, <<"o", "n">>}

\* Variant that never applies .default().
parseFieldWithoutDefault(field, input) ==
    IF field.type = "string"
    THEN [ok |-> input.t = "string", value |-> input]
    ELSE IF field.type = "coerceNumber"
    THEN [ok |-> jsNumber(input) # NaN, value |-> jsNumber(input)]
    ELSE [ok |-> input.t = "string",
          value |-> Bool(input.t = "string" /\ toLowerCase(input.v) \in TRUTHY)]

\* One field of the shape against the input's value for it (undefined when
\* the key is absent): [ok, value].
parseField(field, input) ==
    LET data == IF input.t = "undefined" /\ field.default.t # "undefined"
                THEN field.default
                ELSE input
    IN  IF field.type = "string"
        THEN [ok |-> data.t = "string", value |-> data]
        ELSE IF field.type = "coerceNumber"
        THEN [ok |-> jsNumber(data) # NaN, value |-> jsNumber(data)]
        ELSE [ok |-> data.t = "string",
              value |-> Bool(data.t = "string" /\ toLowerCase(data.v) \in TRUTHY)]

\* Variant that strips the undeclared entries whatever the schema says.
schemaParseStripping(sch, input) ==
    LET parsed == [i \in 1..Len(sch.shape) |->
                      parseField(sch.shape[i], Get(input, sch.shape[i].name))]
        bad == {i \in 1..Len(sch.shape) : ~parsed[i].ok}
        issues == [j \in 1..Cardinality(bad) |->
                      sch.shape[CHOOSE i \in bad :
                          Cardinality({b \in bad : b < i}) = j - 1].name]
        declared == [i \in 1..Len(sch.shape) |->
                        [k |-> sch.shape[i].name, v |-> parsed[i].value]]
    IN  IF bad # {} THEN Throw(ZodError(issues)) ELSE Return(declared)

\* schema.parse(input): the typed object, or a ZodError naming every
\* offending field.  The output holds the declared fields in shape order,
\* then, under passthrough, the undeclared entries of the input.
schemaParse(sch, input) ==
    LET parsed == [i \in 1..Len(sch.shape) |->
                      parseField(sch.shape[i], Get(input, sch.shape[i].name))]
        bad == {i \in 1..Len(sch.shape) : ~parsed[i].ok}
        issues == [j \in 1..Cardinality(bad) |->
                      sch.shape[CHOOSE i \in bad :
                          Cardinality({b \in bad : b < i}) = j - 1].name]
        declared == [i \in 1..Len(sch.shape) |->
                        [k |-> sch.shape[i].name, v |-> parsed[i].value]]
        undeclared == SelectSeq(input, LAMBDA e : e.k \notin shapeKeys(sch))
    IN  IF bad # {}
        THEN Throw(ZodError(issues))
        ELSE Return(IF sch.unknownKeys = "passthrough"
                    THEN declared \o undeclared
                    ELSE declared)

----------------------------------------------------------------------------
(* config-base.ts and settings-base.ts: the exported operations.           *)

Options(prefix, separator) == [prefix |-> prefix, separator |-> separator]
NoOptions == Options(Undefined, Undefined)

\* const { prefix = "", separator = "_" } = options
prefixOf(options) == IF options.prefix.t = "undefined" THEN <<>> ELSE options.prefix.v
separatorOf(options) ==
    IF options.separator.t = "undefined" THEN DEFAULT_SEPARATOR ELSE options.separator.v

\* Variant that validates leniently: on a validation error it returns the
\* candidate mapping instead of throwing.
fromEnvLenient(processEnv, sch, options) ==
    LET collected == collectEnvValues(processEnv, prefixOf(options), separatorOf(options))
        parsed == schemaParse(sch, collected.value)
    IN  [envValues |-> collected,
         result |-> IF collected.kind = "throw"
                    THEN collected
                    ELSE IF parsed.kind = "throw"
                    THEN Return(collected.value)
                    ELSE parsed]

\* A run of fromEnv: its local envValues (line 75) and what it returns or throws.
fromEnv(processEnv, sch, options) ==
    LET collected == collectEnvValues(processEnv, prefixOf(options), separatorOf(options))
    IN  [envValues |-> collected,
         result |-> IF collected.kind = "throw"
                    THEN collected
                    ELSE schemaParse(sch, collected.value)]

\* Variant that hands on the prefix only, as the documentation of
\* loadConfig lists it.
loadConfigPrefixOnly(processEnv, sch, options) ==
    fromEnv(processEnv, sch, Options(options.prefix, Undefined))

loadConfig(processEnv, sch, options) == fromEnv(processEnv, sch, options)

DEFAULT_ENV_FILE == <<".", "e", "n", "v">>

\* Variant that returns the defaults whatever the options are.
createSettingsIgnoringOptions(processEnv, sch, options) ==
    LET parsed == fromEnv(processEnv, sch, NoOptions)
    IN  [envValues |-> parsed.envValues,
         result |-> IF parsed.result.kind = "throw"
                    THEN parsed.result
                    ELSE Return([config |-> parsed.result.value,
                                 envFile |-> Str(DEFAULT_ENV_FILE),
                                 caseSensitive |-> Bool(FALSE)])]

\* Variant that honours envFile: when one is given, the variables are read
\* from that file (which does not exist) instead of the environment.
createSettingsFromEnvFile(processEnv, sch, options) ==
    LET envFile == IF options.envFile.t = "undefined"
                   THEN Str(DEFAULT_ENV_FILE) ELSE options.envFile
        caseSensitive == IF options.caseSensitive.t = "undefined"
                         THEN Bool(FALSE) ELSE options.caseSensitive
        parsed == IF options.envFile.t = "undefined"
                  THEN fromEnv(processEnv, sch, NoOptions)
                  ELSE fromEnv(<<>>, sch, NoOptions)
    IN  [envValues |-> parsed.envValues,
         result |-> IF parsed.result.kind = "throw"
                    THEN parsed.result
                    ELSE Return([config |-> parsed.result.value,
                                 envFile |-> envFile,
                                 caseSensitive |-> caseSensitive])]

createSettings(processEnv, sch, options) ==
    LET envFile == IF options.envFile.t = "undefined"
                   THEN Str(DEFAULT_ENV_FILE) ELSE options.envFile
        caseSensitive == IF options.caseSensitive.t = "undefined"
                         THEN Bool(FALSE) ELSE options.caseSensitive
        parsed == fromEnv(processEnv, sch, NoOptions)
    IN  [envValues |-> parsed.envValues,
         result |-> IF parsed.result.kind = "throw"
                    THEN parsed.result
                    ELSE Return([config |-> parsed.result.value,
                                 envFile |-> envFile,
                                 caseSensitive |-> caseSensitive])]

\* Variant with the test inverted: it keeps the declared entries.
RECURSIVE extrasLoopInverted(_, _, _, _)
extrasLoopInverted(cfg, schemaKeys, i, acc) ==
    IF i > Len(cfg)
    THEN acc
    ELSE IF cfg[i].k \in schemaKeys
    THEN extrasLoopInverted(cfg, schemaKeys, i + 1, Put(acc, cfg[i].k, cfg[i].v))
    ELSE extrasLoopInverted(cfg, schemaKeys, i + 1, acc)

\* The for loop of getExtraConfigs from entry i on, extras being acc.
RECURSIVE extrasLoop(_, _, _, _)
extrasLoop(cfg, schemaKeys, i, acc) ==
    IF i > Len(cfg)
    THEN acc
    ELSE IF cfg[i].k \notin schemaKeys
    THEN extrasLoop(cfg, schemaKeys, i + 1, Put(acc, cfg[i].k, cfg[i].v))
    ELSE extrasLoop(cfg, schemaKeys, i + 1, acc)

getExtraConfigs(cfg, sch) == extrasLoop(cfg, shapeKeys(sch), 1, <<>>)

\* The for loop of getPrintableConfig from entry i on, result being acc.
RECURSIVE printableLoop(_, _, _)
printableLoop(cfg, i, acc) ==
    IF i > Len(cfg)
    THEN acc
    ELSE printableLoop(cfg, i + 1,
             Put(acc, cfg[i].k,
                 IF isSensitive(cfg[i].k) THEN Str(maskValue(cfg[i].v)) ELSE cfg[i].v))

getPrintableConfig(cfg) == printableLoop(cfg, 1, <<>>)

----------------------------------------------------------------------------
(* settings-base.ts: structured logging.  The file system, and the texts   *)
(* of its files and of the two environment variables.                      *)
(*                                                                         *)
(* A path is the sequence of its segments below the root directory; a      *)
(* file is a record of its text and whether it can be read.  JSON.parse,   *)
(* yaml.load and dotenv's parser are given by their results on the texts   *)
(* the model uses.  A parsed document is a value whose tag is "object"     *)
(* (payload: its entries), "array", "string", "number" or "null".          *)

Obj(entries) == [t |-> "object", v |-> entries]
Arr(items) == [t |-> "array", v |-> items]

\* process.cwd()
CWD == << <<"a", "p", "p">>, <<"s", "v", "c">> >>

DOT_ENV == <<".", "e", "n", "v">>
LOGGING_LEVELS == <<"L", "O", "G", "G", "I", "N", "G", "_", "L", "E", "V", "E", "L", "S">>
LOGGING_LEVELS_FILE == <<"L", "O", "G", "G", "I", "N", "G", "_", "L", "E", "V", "E", "L", "S", "_", "F", "I", "L", "E">>

\* {"app":"DEBUG","db":{"pool":"WARN"},"n":5}
TEXT_JSON == <<"{", "\"", "a", "p", "p", "\"", ":", "\"", "D", "E", "B", "U", "G", "\"", ",", "\"", "d", "b", "\"", ":", "{", "\"", "p", "o", "o", "l", "\"", ":", "\"", "W", "A", "R", "N", "\"", "}", ",", "\"", "n", "\"", ":", "5", "}">>
\* app: Info
TEXT_YAML == <<"a", "p", "p", ":", " ", "I", "n", "f", "o">>
\* ["app"]
TEXT_ARRAY == <<"[", "\"", "a", "p", "p", "\"", "]">>
\* {
TEXT_BAD == <<"{">>
\* {"":{"pool":"WARN"}}
TEXT_EMPTY_KEY == <<"{", "\"", "\"", ":", "{", "\"", "p", "o", "o", "l", "\"", ":", "\"", "W", "A", "R", "N", "\"", "}", "}">>
\* REDIS_HOST=6380
TEXT_DOTENV == <<"R", "E", "D", "I", "S", "_", "H", "O", "S", "T", "=", "6", "3", "8", "0">>
\* REDIS_PORT=6380
TEXT_DOTENV_PORT == <<"R", "E", "D", "I", "S", "_", "P", "O", "R", "T", "=", "6", "3", "8", "0">>

APP == <<"a", "p", "p">>
DB == <<"d", "b">>
POOL == <<"p", "o", "o", "l">>
DB_POOL == <<"d", "b", ".", "p", "o", "o", "l">>
N_KEY == <<"n">>

ParsedJson ==
    Obj(<< [k |-> APP, v |-> Str(<<"D", "E", "B", "U", "G">>)],
           [k |-> DB, v |-> Obj(<< [k |-> POOL, v |-> Str(<<"W", "A", "R", "N">>)] >>)],
           [k |-> N_KEY, v |-> Num(<<"5">>)] >>)

ParsedEmptyKey ==
    Obj(<< [k |-> <<>>, v |-> Obj(<< [k |-> POOL, v |-> Str(<<"W", "A", "R", "N">>)] >>)] >>)

\* JSON.parse(text)
JSONparse(text) ==
    IF text = TEXT_JSON THEN Return(ParsedJson)
    ELSE IF text = TEXT_EMPTY_KEY THEN Return(ParsedEmptyKey)
    ELSE IF text = TEXT_ARRAY THEN Return(Arr(<<Str(APP)>>))
    ELSE Throw(SyntaxError)

YAMLException == [name |-> "YAMLException", issues |-> <<>>]

\* yaml.load(text): a JSON text is a YAML text, and a text without ": " or
\* indicator characters is a plain scalar
yamlLoad(text) ==
    IF text = TEXT_JSON THEN Return(ParsedJson)
    ELSE IF text = TEXT_EMPTY_KEY THEN Return(ParsedEmptyKey)
    ELSE IF text = TEXT_ARRAY THEN Return(Arr(<<Str(APP)>>))
    ELSE IF text = TEXT_YAML THEN Return(Obj(<< [k |-> APP, v |-> Str(<<"I", "n", "f", "o">>)] >>))
    ELSE IF text = TEXT_DOTENV THEN Return(Str(TEXT_DOTENV))
    ELSE Throw(YAMLException)

\* dotenv's parse of a file's text: the assignments KEY=value of its lines
dotenvParse(text) ==
    IF text = TEXT_DOTENV
    THEN << [k |-> <<"R", "E", "D", "I", "S", "_", "H", "O", "S", "T">>, v |-> Str(<<"6", "3", "8", "0">>)] >>
    ELSE IF text = TEXT_DOTENV_PORT
    THEN << [k |-> <<"R", "E", "D", "I", "S", "_", "P", "O", "R", "T">>, v |-> Str(<<"6", "3", "8", "0">>)] >>
    ELSE <<>>

File(text, readable) == [text |-> text, readable |-> readable]

\* fs.existsSync(path)
existsSync(fs, path) == Has(fs, path)

\* path.dirname of a directory, the root being its own parent
dirname(dir) == IF dir = <<>> THEN <<>> ELSE SubSeq(dir, 1, Len(dir) - 1)

\* path.isAbsolute(filePath)
isAbsolute(filePath) == Len(filePath) > 0 /\ filePath[1] = "/"

\* The segments of a path string, from index i on, segment being the one
\* under construction.
RECURSIVE segmentsFrom(_, _, _)
segmentsFrom(s, i, segment) ==
    IF i > Len(s)
    THEN IF segment = <<>> THEN <<>> ELSE <<segment>>
    ELSE IF s[i] = "/"
    THEN (IF segment = <<>> THEN <<>> ELSE <<segment>>) \o segmentsFrom(s, i + 1, <<>>)
    ELSE segmentsFrom(s, i + 1, Append(segment, s[i]))

\* path.isAbsolute(filePath) ? filePath : path.join(process.cwd(), filePath)
resolvePath(filePath) ==
    IF isAbsolute(filePath)
    THEN segmentsFrom(filePath, 1, <<>>)
    ELSE CWD \o segmentsFrom(filePath, 1, <<>>)

\* path.extname(path): from the last "." of the last segment on, "" when
\* there is none or it is the segment's first character.
extname(path) ==
    IF path = <<>>
    THEN <<>>
    ELSE LET base == path[Len(path)]
             dots == {i \in 2..Len(base) : base[i] = "."}
         IN  IF dots = {}
             THEN <<>>
             ELSE sliceFrom(base, (CHOOSE i \in dots : \A j \in dots : j <= i) - 1)

----------------------------------------------------------------------------
(* settings-base.ts: resolving the per-logger levels.                      *)

\* A run of a loader: what it returned (a levels object, or null) and the
\* warnings it wrote to process.stderr.
Outcome(value, warnings) == [value |-> value, warnings |-> warnings]

\* The for loop of flattenYamlDict(data, parentKey) from entry i on, result
\* being acc (Object.assign of a nested result is the nested loop carrying
\* acc on).
RECURSIVE flattenLoop(_, _, _, _)
flattenLoop(data, parentKey, i, acc) ==
    IF i > Len(data)
    THEN acc
    ELSE LET key == data[i].k
             value == data[i].v
             newKey == IF parentKey # <<>> THEN parentKey \o <<".">> \o key ELSE key
         IN  IF value.t = "object"
             THEN flattenLoop(data, parentKey, i + 1,
                              flattenLoop(value.v, newKey, 1, acc))
             ELSE IF value.t = "string"
             THEN flattenLoop(data, parentKey, i + 1, Put(acc, newKey, value))
             ELSE flattenLoop(data, parentKey, i + 1, acc)

flattenYamlDict(data) == flattenLoop(data, <<>>, 1, <<>>)

\* level.toUpperCase() === "WARN" ? "warn" : level.toLowerCase()
normalizeLevel(level) ==
    IF toUpperCase(level) = <<"W", "A", "R", "N">>
    THEN <<"w", "a", "r", "n">>
    ELSE toLowerCase(level)

\* The flattened entries with their levels normalized (settings-base.ts:158-163, 190-195)
normalizeLevels(parsed) ==
    LET flattened == flattenYamlDict(parsed.v)
    IN  Obj([i \in 1..Len(flattened) |->
                [k |-> flattened[i].k, v |-> Str(normalizeLevel(flattened[i].v.v))]])

isPlainObject(parsed) == parsed.t = "object"

loadLoggingLevelsFromFile(fs, filePath) ==
    LET resolvedPath == resolvePath(filePath)
        ext == toLowerCase(extname(resolvedPath))
        content == Get(fs, resolvedPath)
        parsed == IF ext = <<".", "j", "s", "o", "n">>
                  THEN JSONparse(content.text)
                  ELSE yamlLoad(content.text)
    IN  IF ~existsSync(fs, resolvedPath)
        THEN Outcome(Null, <<"file not found">>)
        ELSE IF ~content.readable
        THEN Outcome(Null, <<"failed to read file">>)
        ELSE IF ext \notin { <<".", "j", "s", "o", "n">>,
                             <<".", "y", "a", "m", "l">>,
                             <<".", "y", "m", "l">> }
        THEN Outcome(Null, <<"unsupported file extension">>)
        ELSE IF parsed.kind = "throw"
        THEN Outcome(Null, <<"failed to parse file">>)
        ELSE IF ~isPlainObject(parsed.value)
        THEN Outcome(Null, <<"file must contain an object">>)
        ELSE Outcome(normalizeLevels(parsed.value), <<>>)

\* Variant that prefers a valid LOGGING_LEVELS over the levels file.
loadLoggingLevelsFromEnvVariableFirst(processEnv, fs) ==
    LET filePath == Get(processEnv, LOGGING_LEVELS_FILE)
        hasFile == filePath.t = "string" /\ filePath.v # <<>>
        fromFile == IF hasFile
                    THEN loadLoggingLevelsFromFile(fs, filePath.v)
                    ELSE Outcome(Null, <<>>)
        envValue == Get(processEnv, LOGGING_LEVELS)
        json == JSONparse(envValue.v)
        yaml == yamlLoad(envValue.v)
        parsed == IF json.kind = "return" THEN json ELSE yaml
    IN  IF envValue.t = "string" /\ parsed.kind = "return" /\ isPlainObject(parsed.value)
        THEN Outcome(normalizeLevels(parsed.value), <<>>)
        ELSE IF hasFile /\ fromFile.value.t # "null"
        THEN fromFile
        ELSE IF ~(envValue.t = "string" /\ envValue.v # <<>>)
        THEN Outcome(Null, fromFile.warnings)
        ELSE IF parsed.kind = "throw"
        THEN Outcome(Null, Append(fromFile.warnings, "failed to parse LOGGING_LEVELS"))
        ELSE Outcome(Null, Append(fromFile.warnings, "LOGGING_LEVELS must be an object"))

loadLoggingLevelsFromEnv(processEnv, fs) ==
    LET filePath == Get(processEnv, LOGGING_LEVELS_FILE)
        hasFile == filePath.t = "string" /\ filePath.v # <<>>
        fromFile == IF hasFile
                    THEN loadLoggingLevelsFromFile(fs, filePath.v)
                    ELSE Outcome(Null, <<>>)
        envValue == Get(processEnv, LOGGING_LEVELS)
        json == JSONparse(envValue.v)
        yaml == yamlLoad(envValue.v)
        parsed == IF json.kind = "return" THEN json ELSE yaml
    IN  IF hasFile /\ fromFile.value.t # "null"
        THEN fromFile
        ELSE IF ~(envValue.t = "string" /\ envValue.v # <<>>)
        THEN Outcome(Null, fromFile.warnings)
        ELSE IF parsed.kind = "throw"
        THEN Outcome(Null, Append(fromFile.warnings, "failed to parse LOGGING_LEVELS"))
        ELSE IF ~isPlainObject(parsed.value)
        THEN Outcome(Null, Append(fromFile.warnings, "LOGGING_LEVELS must be an object"))
        ELSE Outcome(normalizeLevels(parsed.value), fromFile.warnings)

----------------------------------------------------------------------------
(* settings-base.ts: loadDotenvFile, configureLogging, getLogger.          *)

\* The while loop of loadDotenvFile from directory dir on: the path of the
\* nearest .env file at or above dir, or <<>> when the root is passed.
RECURSIVE nearestDotenv(_, _)
nearestDotenv(fs, dir) ==
    IF existsSync(fs, Append(dir, DOT_ENV))
    THEN Append(dir, DOT_ENV)
    ELSE IF dirname(dir) = dir
    THEN <<>>
    ELSE nearestDotenv(fs, dirname(dir))

\* process.env after the assignments from index i on have been made
\* (dotenv.config with override: true).
RECURSIVE assignAll(_, _, _)
assignAll(processEnv, assignments, i) ==
    IF i > Len(assignments)
    THEN processEnv
    ELSE assignAll(Put(processEnv, assignments[i].k, assignments[i].v), assignments, i + 1)

\* Variant with override: false: a variable already in process.env keeps
\* its value.
loadDotenvFileKeeping(processEnv, fs) ==
    LET envPath == nearestDotenv(fs, CWD)
        assignments == dotenvParse(Get(fs, envPath).text)
        absent == SelectSeq(assignments, LAMBDA a : ~Has(processEnv, a.k))
    IN  IF envPath = <<>> \/ ~Get(fs, envPath).readable
        THEN processEnv
        ELSE assignAll(processEnv, absent, 1)

\* process.env after loadDotenvFile()
loadDotenvFile(processEnv, fs) ==
    LET envPath == nearestDotenv(fs, CWD)
    IN  IF envPath = <<>> \/ ~Get(fs, envPath).readable
        THEN processEnv
        ELSE assignAll(processEnv, dotenvParse(Get(fs, envPath).text), 1)

\* What a plain object inherits from Object.prototype.
ObjectPrototypeKeys ==
    { <<"c", "o", "n", "s", "t", "r", "u", "c", "t", "o", "r">>,
      <<"t", "o", "S", "t", "r", "i", "n", "g">> }
InheritedFunction == [t |-> "function", v |-> <<>>]

\* levels[name]
lookup(levels, name) ==
    IF Has(levels, name) THEN Get(levels, name)
    ELSE IF name \in ObjectPrototypeKeys THEN InheritedFunction
    ELSE Undefined

\* if (x): the values a levels table can hold
truthy(x) == ~(x.t \in {"undefined", "null"} \/ (x.t = "string" /\ x.v = <<>>))

\* The for loop of resolveLoggerLevel: the parent names of name are what
\* stands before each of its dots, the one before the last dot first; i is
\* the index the search for the next dot goes down from.
RECURSIVE resolveParents(_, _, _)
resolveParents(levels, name, i) ==
    IF i < 1
    THEN Undefined
    ELSE IF name[i] = "." /\ truthy(lookup(levels, SubSeq(name, 1, i - 1)))
    THEN lookup(levels, SubSeq(name, 1, i - 1))
    ELSE resolveParents(levels, name, i - 1)

resolveLoggerLevel(levels, name) ==
    IF truthy(lookup(levels, name))
    THEN lookup(levels, name)
    ELSE resolveParents(levels, name, Len(name))

\* rootLogger.child(childOptions): the child is bound to the root it was
\* made from and carries the level given, or the root's level.
getLogger(root, levels, name) ==
    LET level == resolveLoggerLevel(levels, name)
    IN  [name |-> name,
         override |-> level,
         level |-> IF truthy(level) THEN level.v ELSE root.level,
         root |-> root.id]

LoggingOptions(logLevel, loggingLevels, isTTY) ==
    [logLevel |-> logLevel, loggingLevels |-> loggingLevels, isTTY |-> isTTY]

\* Variant that installs the empty table when no levels are resolved
\* (loggerLevels = resolvedLevels ?? {}).
configureLoggingResetting(processEnv, fs, root, levels, options) ==
    LET logLevel == IF options.logLevel.t = "undefined"
                    THEN <<"i", "n", "f", "o">> ELSE options.logLevel.v
        envAfter == loadDotenvFile(processEnv, fs)
        fromEnvironment == loadLoggingLevelsFromEnv(envAfter, fs)
        resolvedLevels == IF options.loggingLevels.t = "undefined"
                          THEN fromEnvironment.value
                          ELSE options.loggingLevels
    IN  [env |-> envAfter,
         loggerLevels |-> IF truthy(resolvedLevels) THEN resolvedLevels.v ELSE <<>>,
         rootLogger |-> [id |-> root.id + 1,
                         level |-> toLowerCase(logLevel),
                         targets |-> << [target |-> IF options.isTTY
                                                    THEN "pino-pretty" ELSE "pino/file",
                                         level |-> toLowerCase(logLevel)] >>],
         stderr |-> IF options.loggingLevels.t = "undefined"
                    THEN fromEnvironment.warnings ELSE <<>>]

\* A run of configureLogging(options) with no logFile, process.stdout.isTTY
\* being options.isTTY: process.env, loggerLevels and rootLogger after it,
\* and what it wrote to process.stderr.
configureLogging(processEnv, fs, root, levels, options) ==
    LET logLevel == IF options.logLevel.t = "undefined"
                    THEN <<"i", "n", "f", "o">> ELSE options.logLevel.v
        envAfter == loadDotenvFile(processEnv, fs)
        fromEnvironment == loadLoggingLevelsFromEnv(envAfter, fs)
        resolvedLevels == IF options.loggingLevels.t = "undefined"
                          THEN fromEnvironment.value
                          ELSE options.loggingLevels
        target == IF options.isTTY
                  THEN [target |-> "pino-pretty", level |-> toLowerCase(logLevel)]
                  ELSE [target |-> "pino/file", level |-> toLowerCase(logLevel)]
    IN  [env |-> envAfter,
         loggerLevels |-> IF truthy(resolvedLevels) THEN resolvedLevels.v ELSE levels,
         rootLogger |-> [id |-> root.id + 1,
                         level |-> toLowerCase(logLevel),
                         targets |-> <<target>>],
         stderr |-> IF options.loggingLevels.t = "undefined"
                    THEN fromEnvironment.warnings ELSE <<>>]

----------------------------------------------------------------------------
(* Inputs of the explored runs.                                            *)

REDIS_HOST == <<"R", "E", "D", "I", "S", "_", "H", "O", "S", "T">>
REDIS_PORT == <<"R", "E", "D", "I", "S", "_", "P", "O", "R", "T">>
REDIS_Host == <<"R", "E", "D", "I", "S", "_", "H", "o", "s", "t">>
redis_HOST == <<"r", "e", "d", "i", "s", "_", "H", "O", "S", "T">>
API_KEY == <<"A", "P", "I", "_", "K", "E", "Y">>
REDIS_EXTRA1 == <<"R", "E", "D", "I", "S", "_", "E", "X", "T", "R", "A", "1">>

EnvNames == {REDIS_HOST, REDIS_PORT, REDIS_Host, redis_HOST, API_KEY, REDIS_EXTRA1}

REDIS_EXAMPLE_COM == <<"r", "e", "d", "i", "s", ".", "e", "x", "a", "m", "p", "l", "e", ".", "c", "o", "m">>
V6380 == <<"6", "3", "8", "0">>

\* The strings assigned to variables.
EnvValues == {Str(REDIS_EXAMPLE_COM), Str(V6380)}

\* After process.env = { ...originalEnv } (config-base.test.ts:18) the
\* environment is a plain object, whose properties may hold undefined
\* (config-base.ts:49): REDIS_HOST is the one the model assigns undefined to.
UndefinedNames == {REDIS_HOST}

REDIS_ == <<"R", "E", "D", "I", "S", "_">>
redis_ == <<"r", "e", "d", "i", "s", "_">>

PrefixOptions == {Undefined, Str(REDIS_), Str(redis_)}
SeparatorOptions == {Undefined, Str(<<".">>), Str(<<"(">>)}

ENV_TEST == <<".", "e", "n", "v", ".", "t", "e", "s", "t">>
SettingsOptions ==
    [envFile : {Undefined, Str(ENV_TEST)}, caseSensitive : {Undefined, Bool(TRUE)}]

\* Keys and values of the config objects handed to the view operations.
CfgKeys ==
    << HOST_F, PORT_F, API_KEY_F, <<"p", "a", "s", "s", "w", "o", "r", "d">>, <<"D", "B", "_", "P", "W">>,
       <<"c", "l", "i", "e", "n", "t", "_", "s", "e", "c", "r", "e", "t">>, <<"c", "r", "e", "d", "e", "n", "t", "i", "a", "l", "s">>, <<"e", "x", "t", "r", "a", "1">> >>

SECRET123 == <<"s", "e", "c", "r", "e", "t", "1", "2", "3">>
MYPASSWORD == <<"m", "y", "p", "a", "s", "s", "w", "o", "r", "d">>

CfgValues ==
    { Str(LOCALHOST), Str(SECRET123), Str(<<>>), Num(N6379), Null }

\* The objects with the keys numbered by ks, in the order of CfgKeys.
RECURSIVE objectsOver(_)
objectsOver(ks) ==
    IF ks = {}
    THEN {<<>>}
    ELSE LET last == CHOOSE i \in ks : \A j \in ks : j <= i
         IN  {Append(o, [k |-> CfgKeys[last], v |-> v]) :
                  o \in objectsOver(ks \ {last}), v \in CfgValues}

SmallConfigs ==
    UNION {objectsOver(ks) :
               ks \in {x \in SUBSET (1..Len(CfgKeys)) : Cardinality(x) <= MaxKeys}}

\* One secret of every length up to MaxStrLen over two letters.
SecretConfigs ==
    { <<[k |-> <<"p", "a", "s", "s", "w", "o", "r", "d">>, v |-> Str(s)]>> :
          s \in UNION {[1..n -> {"a", "b"}] : n \in 0..MaxStrLen} }

\* config-base.test.ts:63-76
SecretsExample ==
    << [k |-> API_KEY_F, v |-> Str(SECRET123)],
       [k |-> <<"p", "a", "s", "s", "w", "o", "r", "d">>, v |-> Str(MYPASSWORD)],
       [k |-> HOST_F, v |-> Str(LOCALHOST)] >>

\* A secret of every kind of value maskValue distinguishes without looking
\* at a string's length (config-base.ts:21-26).
MarkerConfigs ==
    { <<[k |-> <<"p", "a", "s", "s", "w", "o", "r", "d">>, v |-> v]>> :
          v \in {Null, Undefined, Str(<<>>), Num(N6379), Bool(TRUE), Bool(FALSE), EmptyObject} }

InputConfigs == SmallConfigs \cup SecretConfigs \cup MarkerConfigs \cup {SecretsExample}

----------------------------------------------------------------------------
(* The state machine.                                                      *)

\* The state of a fresh process: an empty environment, nothing called yet.
\* let rootLogger: Logger = pino({ level: "info" })
InitialRootLogger == [id |-> 0, level |-> <<"i", "n", "f", "o">>, targets |-> <<>>]

InitLogging ==
    /\ rootLogger = InitialRootLogger
    /\ loggerLevels = <<>>
    /\ loggers = <<>>
    /\ stderr = <<>>

InitCommon ==
    /\ InitLogging
    /\ files = <<>>
    /\ env = <<>>
    /\ schema \in Schemas
    /\ call = [op |-> "none"]
    /\ envValues = NoResult
    /\ ret = NoResult

Init == InitCommon /\ config = <<>>

\* The caller arranges the environment, then loads, as each test does
\* (config-base.test.ts:29-34).  A load leaves env and schema as they were,
\* so an assignment or a second load straight after it would start from the
\* program state the arranging steps already reached.
Arranged == call.op \in {"none", "setEnv", "restoreEnv"}

\* process.env.K = v (config-base.test.ts:30-32)
SetEnv(k, v) ==
    /\ Arranged
    /\ Has(env, k) \/ Len(env) < MaxEnv
    /\ env' = Put(env, k, v)
    /\ call' = [op |-> "setEnv", key |-> k, value |-> v]
    /\ envValues' = NoResult
    /\ ret' = NoResult
    /\ config' = <<>>
    /\ UNCHANGED schema
    /\ UNCHANGED loggingVars

\* process.env = { ...originalEnv } (config-base.test.ts:17-19)
RestoreEnv ==
    /\ env # <<>>
    /\ env' = <<>>
    /\ call' = [op |-> "restoreEnv"]
    /\ envValues' = NoResult
    /\ ret' = NoResult
    /\ config' = <<>>
    /\ UNCHANGED schema
    /\ UNCHANGED loggingVars

FromEnvCall(options) ==
    LET run == fromEnv(env, schema, options)
    IN  /\ Arranged
        /\ call' = [op |-> "fromEnv", options |-> options]
        /\ envValues' = run.envValues
        /\ ret' = run.result
        /\ config' = <<>>
        /\ UNCHANGED <<env, schema>>
        /\ UNCHANGED loggingVars

LoadConfigCall(options) ==
    LET run == loadConfig(env, schema, options)
    IN  /\ Arranged
        /\ call' = [op |-> "loadConfig", options |-> options]
        /\ envValues' = run.envValues
        /\ ret' = run.result
        /\ config' = <<>>
        /\ UNCHANGED <<env, schema>>
        /\ UNCHANGED loggingVars

CreateSettingsCall(options) ==
    LET run == createSettings(env, schema, options)
    IN  /\ Arranged
        /\ call' = [op |-> "createSettings", options |-> options]
        /\ envValues' = run.envValues
        /\ ret' = run.result
        /\ config' = <<>>
        /\ UNCHANGED <<env, schema>>
        /\ UNCHANGED loggingVars

\* Variant that masks the caller's object in place.
GetPrintableConfigInPlace(c) ==
    /\ call' = [op |-> "getPrintableConfig", config |-> c]
    /\ ret' = Return(getPrintableConfig(c))
    /\ config' = getPrintableConfig(c)
    /\ envValues' = NoResult
    /\ UNCHANGED <<env, schema>>
    /\ UNCHANGED loggingVars

\* getPrintableConfig(c): config is the object c after the call.
GetPrintableConfigCall(c) ==
    /\ call' = [op |-> "getPrintableConfig", config |-> c]
    /\ ret' = Return(getPrintableConfig(c))
    /\ config' = c
    /\ envValues' = NoResult
    /\ UNCHANGED <<env, schema>>
    /\ UNCHANGED loggingVars

\* getExtraConfigs(c, schema)
GetExtraConfigsCall(c) ==
    /\ call' = [op |-> "getExtraConfigs", config |-> c]
    /\ ret' = Return(getExtraConfigs(c, schema))
    /\ config' = c
    /\ envValues' = NoResult
    /\ UNCHANGED <<env, schema>>
    /\ UNCHANGED loggingVars

\* const config = fromEnv(...); then a view of it (config-base.test.ts:56-57, 70-71)
Parsed == call.op \in {"fromEnv", "loadConfig"} /\ ret.kind = "return"
PrintableOfParsed == Parsed /\ GetPrintableConfigCall(ret.value)
ExtrasOfParsed == Parsed /\ GetExtraConfigsCall(ret.value)

Next ==
    \/ \E k \in EnvNames, v \in EnvValues : SetEnv(k, v)
    \/ \E k \in UndefinedNames : SetEnv(k, Undefined)
    \/ RestoreEnv
    \/ \E p \in PrefixOptions, s \in SeparatorOptions : FromEnvCall(Options(p, s))
    \/ \E p \in PrefixOptions, s \in SeparatorOptions : LoadConfigCall(Options(p, s))
    \/ \E o \in SettingsOptions : CreateSettingsCall(o)
    \/ PrintableOfParsed
    \/ ExtrasOfParsed

Spec == Init /\ [][Next]_vars

\* The two views as functions of their input: the caller holds any config
\* object of InputConfigs and hands it to one of them.
InitViews == InitCommon /\ config \in InputConfigs

PrintableOfInput == call.op = "none" /\ GetPrintableConfigCall(config)
ExtrasOfInput == call.op = "none" /\ GetExtraConfigsCall(config)

NextViews == PrintableOfInput \/ ExtrasOfInput

SpecViews == InitViews /\ [][NextViews]_vars

----------------------------------------------------------------------------
(* Repeated calls of fromEnv: the caller keeps the config of its last      *)
(* successful call in config while it changes the environment and calls    *)
(* again, in any order.                                                    *)

CallNames == {REDIS_HOST, REDIS_PORT}
CallOptions == {NoOptions, Options(Str(REDIS_), Undefined)}

\* process.env.K = v between two calls (config-base.test.ts:30-32)
ChangeEnv(k, v) ==
    /\ Has(env, k) \/ Len(env) < MaxEnv
    /\ env' = Put(env, k, v)
    /\ call' = [op |-> "setEnv", key |-> k, value |-> v]
    /\ UNCHANGED <<schema, envValues, ret, config>>
    /\ UNCHANGED loggingVars

\* process.env = { ...originalEnv } between two calls (config-base.test.ts:17-19)
ResetEnv ==
    /\ env # <<>>
    /\ env' = <<>>
    /\ call' = [op |-> "restoreEnv"]
    /\ UNCHANGED <<schema, envValues, ret, config>>
    /\ UNCHANGED loggingVars

\* Variant with a memoised result: once a call has returned, later calls
\* return the same config again.
FromEnvMemoised(options) ==
    LET run == fromEnv(env, schema, options)
    IN  /\ call' = [op |-> "fromEnv", options |-> options]
        /\ envValues' = run.envValues
        /\ ret' = IF ret.kind = "return" THEN ret ELSE run.result
        /\ config' = IF ret.kind = "return" THEN ret.value ELSE config
        /\ UNCHANGED <<env, schema>>
        /\ UNCHANGED loggingVars

\* const next = fromEnv(schema, options), config being what the load before
\* it returned (configureLogging returns nothing to keep).
FromEnvAgain(options) ==
    LET run == fromEnv(env, schema, options)
    IN  /\ call' = [op |-> "fromEnv", options |-> options]
        /\ envValues' = run.envValues
        /\ ret' = run.result
        /\ config' = IF ret.kind = "return" /\ call.op # "configureLogging"
                      THEN ret.value ELSE config
        /\ UNCHANGED <<env, schema>>
        /\ UNCHANGED loggingVars

NextCalls ==
    \/ \E k \in CallNames, v \in EnvValues : ChangeEnv(k, v)
    \/ ResetEnv
    \/ \E o \in CallOptions : FromEnvAgain(o)

SpecCalls == Init /\ [][NextCalls]_vars

----------------------------------------------------------------------------
(* Loads with a prefix that does not end at a segment boundary: "APP",     *)
(* over variables named APP_HOST, APPLE_X, APP and API_KEY.                *)

APP_P == <<"A", "P", "P">>
APP_HOST == <<"A", "P", "P", "_", "H", "O", "S", "T">>
APPLE_X == <<"A", "P", "P", "L", "E", "_", "X">>

BoundaryNames == {APP_HOST, APPLE_X, APP_P, API_KEY}

NextBoundary ==
    \/ \E k \in BoundaryNames : SetEnv(k, Str(V6380))
    \/ \E p \in {Str(APP_P), Str(toLowerCase(APP_P))} : FromEnvCall(Options(p, Undefined))

SpecBoundary == Init /\ [][NextBoundary]_vars

----------------------------------------------------------------------------
(* Repeated calls of createSettings: the caller keeps the settings of its  *)
(* last successful call in config while it changes the environment and     *)
(* calls again with other options, in any order.                           *)

\* const next = createSettings(schema, options), config being what the
\* call before it returned.
CreateSettingsAgain(options) ==
    LET run == createSettings(env, schema, options)
    IN  /\ call' = [op |-> "createSettings", options |-> options]
        /\ envValues' = run.envValues
        /\ ret' = run.result
        /\ config' = IF ret.kind = "return" THEN ret.value ELSE config
        /\ UNCHANGED <<env, schema>>
        /\ UNCHANGED loggingVars

NextSettings ==
    \/ \E v \in EnvValues : ChangeEnv(API_KEY, v)
    \/ \E k \in UndefinedNames : ChangeEnv(k, Undefined)
    \/ ResetEnv
    \/ \E o \in SettingsOptions : CreateSettingsAgain(o)

SpecSettings == Init /\ [][NextSettings]_vars

----------------------------------------------------------------------------
(* The logging half of settings-base.ts: configureLogging, getLogger and   *)
(* reconfigureExistingLoggers called in any order, over a file system and  *)
(* an environment chosen at the start.                                     *)

LEVELS_JSON == <<"l", "e", "v", "e", "l", "s", ".", "j", "s", "o", "n">>
LEVELS_YML == <<"l", "e", "v", "e", "l", "s", ".", "y", "m", "l">>
LEVELS_TXT == <<"l", "e", "v", "e", "l", "s", ".", "t", "x", "t">>

FileSystems ==
    { <<>>,
      << [k |-> Append(CWD, LEVELS_JSON), v |-> File(TEXT_JSON, TRUE)] >>,
      << [k |-> Append(CWD, LEVELS_YML), v |-> File(TEXT_BAD, TRUE)],
         [k |-> <<APP, DOT_ENV>>, v |-> File(TEXT_DOTENV, TRUE)] >> }

LoggingEnvs ==
    { <<>>,
      << [k |-> LOGGING_LEVELS, v |-> Str(TEXT_YAML)] >>,
      << [k |-> LOGGING_LEVELS, v |-> Str(TEXT_ARRAY)],
         [k |-> LOGGING_LEVELS_FILE, v |-> Str(LEVELS_JSON)] >>,
      << [k |-> LOGGING_LEVELS_FILE, v |-> Str(LEVELS_YML)] >> }

WEB == <<"w", "e", "b">>
APP_DB == <<"a", "p", "p", ".", "d", "b">>
LoggerNames == {APP, APP_DB, WEB}

ERROR_LEVEL == <<"e", "r", "r", "o", "r">>
LevelsOptions ==
    {Undefined, Null, Obj(<<>>), Obj(<< [k |-> WEB, v |-> Str(ERROR_LEVEL)] >>)}

ConfigureOptions ==
    {LoggingOptions(Undefined, l, FALSE) : l \in LevelsOptions}
        \cup {LoggingOptions(Str(<<"D", "E", "B", "U", "G">>), l, TRUE) : l \in LevelsOptions}

InitLoggers ==
    /\ InitLogging
    /\ files \in FileSystems
    /\ env \in LoggingEnvs
    /\ schema = RedisConfigSchema
    /\ config = <<>>
    /\ call = [op |-> "none"]
    /\ envValues = NoResult
    /\ ret = NoResult

ConfigureLoggingCall(options) ==
    LET run == configureLogging(env, files, rootLogger, loggerLevels, options)
    IN  /\ rootLogger.id < MaxRoots
        /\ call' = [op |-> "configureLogging", options |-> options]
        /\ env' = run.env
        /\ loggerLevels' = run.loggerLevels
        /\ rootLogger' = run.rootLogger
        /\ stderr' = run.stderr
        /\ ret' = Return(Undefined)
        /\ envValues' = NoResult
        /\ UNCHANGED <<schema, config, files, loggers>>

GetLoggerCall(name) ==
    LET logger == getLogger(rootLogger, loggerLevels, name)
    IN  /\ call' = [op |-> "getLogger", name |-> name]
        /\ ret' = Return(logger)
        /\ loggers' = IF Len(loggers) < MaxLoggers THEN Append(loggers, logger) ELSE loggers
        /\ envValues' = NoResult
        /\ UNCHANGED <<env, schema, config, files, rootLogger, loggerLevels, stderr>>

\* Variant that rebinds the loggers handed out to the current root logger
\* and gives those without an override its level.
ReconfigureExistingLoggersRebinding ==
    /\ call' = [op |-> "reconfigureExistingLoggers"]
    /\ ret' = Return(Undefined)
    /\ envValues' = NoResult
    /\ loggers' = [i \in 1..Len(loggers) |->
                       [loggers[i] EXCEPT !.root = rootLogger.id,
                                          !.level = IF truthy(loggers[i].override)
                                                    THEN @ ELSE rootLogger.level]]
    /\ UNCHANGED <<env, schema, config, files, rootLogger, loggerLevels, stderr>>

ReconfigureExistingLoggersCall ==
    /\ call' = [op |-> "reconfigureExistingLoggers"]
    /\ ret' = Return(Undefined)
    /\ envValues' = NoResult
    /\ UNCHANGED <<env, schema, config, files, rootLogger, loggerLevels, loggers, stderr>>

NextLoggers ==
    \/ \E o \in ConfigureOptions : ConfigureLoggingCall(o)
    \/ \E name \in LoggerNames : GetLoggerCall(name)
    \/ ReconfigureExistingLoggersCall

SpecLoggers == InitLoggers /\ [][NextLoggers]_vars

----------------------------------------------------------------------------
(* getLogger over the tables configureLogging installs from its            *)
(* loggingLevels option (a Record<string, string>), with no levels in the  *)
(* environment and no files.                                               *)

APP_DBX == <<"a", "p", "p", ".", "d", "b", "x">>
APP_DB_POOL == <<"a", "p", "p", ".", "d", "b", ".", "p", "o", "o", "l">>
TO_STRING == <<"t", "o", "S", "t", "r", "i", "n", "g">>
TO_STRING_CALL == <<"t", "o", "S", "t", "r", "i", "n", "g", ".", "c", "a", "l", "l">>
DEBUG_LEVEL == <<"d", "e", "b", "u", "g">>
WARN_LEVEL == <<"w", "a", "r", "n">>

ResolveTables ==
    { <<>>,
      << [k |-> APP, v |-> Str(DEBUG_LEVEL)] >>,
      << [k |-> APP_DB, v |-> Str(WARN_LEVEL)] >>,
      << [k |-> APP, v |-> Str(DEBUG_LEVEL)], [k |-> APP_DB, v |-> Str(WARN_LEVEL)] >>,
      << [k |-> APP, v |-> Str(DEBUG_LEVEL)], [k |-> APP_DB, v |-> Str(<<>>)] >>,
      << [k |-> TO_STRING, v |-> Str(DEBUG_LEVEL)] >> }

ResolveOptions == {LoggingOptions(Undefined, Obj(table), FALSE) : table \in ResolveTables}

ResolveNames == {APP, APP_DB, APP_DBX, APP_DB_POOL, WEB, TO_STRING, TO_STRING_CALL}

NextResolve ==
    \/ \E o \in ResolveOptions : ConfigureLoggingCall(o)
    \/ \E name \in ResolveNames : GetLoggerCall(name)

SpecResolve == Init /\ [][NextResolve]_vars

----------------------------------------------------------------------------
(* configureLogging over the ways LOGGING_LEVELS_FILE and LOGGING_LEVELS   *)
(* can be right or wrong: a levels file that is missing, unreadable,       *)
(* unparseable, of an unsupported extension, not an object, or valid; a    *)
(* variable that is unset, empty, unparseable, not an object, or valid.    *)

LevelFileSystems ==
    { <<>>,
      << [k |-> Append(CWD, LEVELS_JSON), v |-> File(TEXT_JSON, TRUE)] >>,
      << [k |-> Append(CWD, LEVELS_JSON), v |-> File(TEXT_JSON, FALSE)] >>,
      << [k |-> Append(CWD, LEVELS_JSON), v |-> File(TEXT_ARRAY, TRUE)] >>,
      << [k |-> Append(CWD, LEVELS_YML), v |-> File(TEXT_BAD, TRUE)] >>,
      << [k |-> Append(CWD, LEVELS_YML), v |-> File(TEXT_YAML, TRUE)] >>,
      << [k |-> Append(CWD, LEVELS_TXT), v |-> File(TEXT_JSON, TRUE)] >> }

\* process.env with the two variables set to the strings given, a variable
\* given undefined being absent.
LevelEnvs ==
    { (IF f = Undefined THEN <<>> ELSE << [k |-> LOGGING_LEVELS_FILE, v |-> f] >>)
          \o (IF t = Undefined THEN <<>> ELSE << [k |-> LOGGING_LEVELS, v |-> t] >>) :
          f \in {Undefined, Str(LEVELS_JSON), Str(LEVELS_YML), Str(LEVELS_TXT)},
          t \in {Undefined, Str(<<>>), Str(TEXT_JSON), Str(TEXT_YAML), Str(TEXT_EMPTY_KEY),
                 Str(TEXT_ARRAY), Str(TEXT_BAD)} }

LevelOptions ==
    { LoggingOptions(Undefined, Undefined, FALSE),
      LoggingOptions(Undefined, Obj(<< [k |-> WEB, v |-> Str(ERROR_LEVEL)] >>), FALSE),
      LoggingOptions(Undefined, Obj(<< [k |-> DB, v |-> Str(<<"W", "A", "R", "N">>)] >>), FALSE) }

InitLevels ==
    /\ InitLogging
    /\ files \in LevelFileSystems
    /\ env \in LevelEnvs
    /\ schema = RedisConfigSchema
    /\ config = <<>>
    /\ call = [op |-> "none"]
    /\ envValues = NoResult
    /\ ret = NoResult

NextLevels == \E o \in LevelOptions : ConfigureLoggingCall(o)

SpecLevels == InitLevels /\ [][NextLevels]_vars

----------------------------------------------------------------------------
(* Config loads before and after configureLogging, over .env files in the  *)
(* working directory, in its parent and at the root: the caller keeps the  *)
(* config of its last successful load in config.                           *)

DotenvFileSystems ==
    { <<>>,
      << [k |-> Append(CWD, DOT_ENV), v |-> File(TEXT_DOTENV, TRUE)] >>,
      << [k |-> Append(dirname(CWD), DOT_ENV), v |-> File(TEXT_DOTENV, TRUE)] >>,
      << [k |-> <<DOT_ENV>>, v |-> File(TEXT_DOTENV_PORT, TRUE)] >>,
      << [k |-> Append(CWD, DOT_ENV), v |-> File(TEXT_DOTENV, TRUE)],
         [k |-> Append(dirname(CWD), DOT_ENV), v |-> File(TEXT_DOTENV_PORT, TRUE)] >>,
      << [k |-> Append(CWD, DOT_ENV), v |-> File(TEXT_DOTENV, FALSE)],
         [k |-> <<DOT_ENV>>, v |-> File(TEXT_DOTENV_PORT, TRUE)] >> }

InitDotenv ==
    /\ InitLogging
    /\ files \in DotenvFileSystems
    /\ env \in { <<>>,
                 << [k |-> REDIS_HOST, v |-> Str(REDIS_EXAMPLE_COM)] >>,
                 << [k |-> REDIS_HOST, v |-> Str(REDIS_EXAMPLE_COM)],
                    [k |-> REDIS_PORT, v |-> Str(REDIS_EXAMPLE_COM)] >> }
    /\ schema \in {RedisConfigSchema, SamplePassthroughSchema}
    /\ config = <<>>
    /\ call = [op |-> "none"]
    /\ envValues = NoResult
    /\ ret = NoResult

NextDotenv ==
    \/ \E o \in CallOptions : FromEnvAgain(o)
    \/ \E o \in LevelOptions : ConfigureLoggingCall(o)

SpecDotenv == InitDotenv /\ [][NextDotenv]_vars

----------------------------------------------------------------------------
(* Properties.                                                             *)

\* The last operation collected a candidate mapping from the environment
\* with the prefix and separator of its options.
Loaded == call.op \in {"fromEnv", "loadConfig"}
Collected == Loaded /\ envValues.kind = "return"

\* N starts with P, letter case ignored.
startsWithIgnoringCase(N, P) == startsWith(toLowerCase(N), toLowerCase(P))

\* Entry e of the candidate mapping is derived from entry x of the
\* environment: its key is x's name without the prefix's length, as a field
\* name, and its value is x's value.
DerivedFrom(e, x, P, separator) ==
    LET name == toFieldName(sliceFrom(x.k, Len(P)), separator)
    IN  name.kind = "return" /\ e.k = name.value /\ e.v = x.v

\* C1: with a non-empty prefix P, a variable whose name does not start with
\* P (letter case ignored) contributes nothing to the candidate mapping:
\* every entry of the mapping is derived from a variable that does start
\* with P, and the mapping is the one collected from the snapshot with all
\* other variables removed.
C1_PrefixExcludes ==
    (Collected /\ prefixOf(call.options) # <<>>) =>
        LET P == prefixOf(call.options)
            separator == separatorOf(call.options)
            carrying == SelectSeq(env, LAMBDA x : startsWithIgnoringCase(x.k, P))
        IN  /\ \A j \in 1..Len(envValues.value) :
                   \E i \in 1..Len(carrying) :
                       DerivedFrom(envValues.value[j], carrying[i], P, separator)
            /\ envValues = collectEnvValues(carrying, P, separator)

\* C1 witness: a load with prefix REDIS_ over an environment that holds a
\* variable carrying the prefix and one that does not (redis_HOST, which
\* differs in letter case only, is not the latter), with a non-empty result.
C1_Witness ==
    /\ Collected
    /\ prefixOf(call.options) = REDIS_
    /\ Len(env) = 2
    /\ \E i \in 1..Len(env) : ~startsWithIgnoringCase(env[i].k, REDIS_)
    /\ Len(envValues.value) = 1

\* The environment holds variable name, and no variable iterated after it
\* derives the field name F under prefix P and the default separator.
LastDeriving(name, F, P) ==
    \E i \in 1..Len(env) :
        /\ env[i].k = name
        /\ \A j \in (i + 1)..Len(env) :
               ~(startsWith(env[j].k, toUpperCase(P))
                 /\ toLowerCase(sliceFrom(env[j].k, Len(P))) = F)

\* What the schema makes of the raw string v for a declared field.
Coercion(field, v) ==
    IF field.type = "string" THEN Str(v)
    ELSE IF field.type = "coerceNumber" THEN Num(canonicalDigits(v))
    ELSE Bool(toLowerCase(v) \in TRUTHY)

\* C2 as stated: for every declared field F and prefix P, when the
\* environment holds the variable P + upper-case(F) with string v, a load with
\* prefix P that returns a config returns one whose field F is the schema's
\* coercion of v.
C2_AsStated ==
    (Loaded /\ call.options.separator = Undefined /\ ret.kind = "return") =>
        \A i \in 1..Len(schema.shape) :
            LET field == schema.shape[i]
                name == prefixOf(call.options) \o toUpperCase(field.name)
            IN  (Has(env, name) /\ Get(env, name) # Undefined) =>
                    Get(ret.value, field.name) = Coercion(field, Get(env, name).v)

\* C2, amended: for every declared field F written without upper-case
\* letters and every prefix P, when the environment holds the variable
\* upper-case(P) + upper-case(F) with string v, no variable iterated after it
\* derives the same field name, and validation succeeds, a load with prefix P
\* and the default separator returns a config whose field F is the schema's
\* coercion of v.
C2_PrefixedVariableLoaded ==
    (Loaded /\ call.options.separator = Undefined /\ ret.kind = "return") =>
        \A i \in 1..Len(schema.shape) :
            LET field == schema.shape[i]
                P == prefixOf(call.options)
                name == toUpperCase(P) \o toUpperCase(field.name)
            IN  (/\ field.name = toLowerCase(field.name)
                 /\ Has(env, name)
                 /\ Get(env, name) # Undefined
                 /\ LastDeriving(name, field.name, P)) =>
                    Get(ret.value, field.name) = Coercion(field, Get(env, name).v)

\* C2 witness: REDIS_HOST=redis.example.com and REDIS_PORT=6380 loaded with
\* prefix "REDIS_" into RedisConfigSchema give host redis.example.com and
\* port 6380.
C2_Witness ==
    /\ call = [op |-> "loadConfig", options |-> Options(Str(REDIS_), Undefined)]
    /\ schema = RedisConfigSchema
    /\ AsMap(env) = { <<REDIS_HOST, Str(REDIS_EXAMPLE_COM)>>, <<REDIS_PORT, Str(V6380)>> }
    /\ ret = Return(<< [k |-> HOST_F, v |-> Str(REDIS_EXAMPLE_COM)],
                       [k |-> PORT_F, v |-> Num(V6380)] >>)

\* No key of the candidate mapping is a declared field.
NothingDeclaredCollected ==
    Collected /\ \A j \in 1..Len(envValues.value) : envValues.value[j].k \notin shapeKeys(schema)

\* The declared fields of the two schemas whose fields all have defaults,
\* at their defaults.
RedisDefaults ==
    { <<HOST_F, Str(LOCALHOST)>>, <<PORT_F, Num(N6379)>> }
SampleDefaults ==
    { <<HOST_F, Str(LOCALHOST)>>, <<PORT_F, Num(N8080)>>, <<DEBUG_F, Bool(FALSE)>> }

DeclaredPart(obj) == {kv \in AsMap(obj) : kv[1] \in shapeKeys(schema)}

AtDefaults ==
    /\ ret.kind = "return"
    /\ \A i \in 1..Len(schema.shape) :
           /\ schema.shape[i].default # Undefined
           /\ Has(ret.value, schema.shape[i].name)
    /\ schema = RedisConfigSchema => DeclaredPart(ret.value) = RedisDefaults
    /\ schema = SamplePassthroughSchema => DeclaredPart(ret.value) = SampleDefaults

\* C3 as stated: when no environment variable maps to a declared field, a
\* load returns every declared field at its schema default.
C3_AsStated == NothingDeclaredCollected => AtDefaults

\* C3, amended: when no environment variable maps to a declared field and
\* every declared field has a default, a load returns every declared field
\* at its schema default.
C3_DefaultsWhenUnset ==
    (/\ NothingDeclaredCollected
     /\ \A i \in 1..Len(schema.shape) : schema.shape[i].default # Undefined) =>
        AtDefaults

\* C3 witness: prefix "REDIS_", no REDIS_* variable in a non-empty
\* environment, RedisConfigSchema: {host: "localhost", port: 6379}.
C3_Witness ==
    /\ call = [op |-> "loadConfig", options |-> Options(Str(REDIS_), Undefined)]
    /\ schema = RedisConfigSchema
    /\ env # <<>>
    /\ envValues = Return(<<>>)
    /\ ret = Return(<< [k |-> HOST_F, v |-> Str(LOCALHOST)],
                       [k |-> PORT_F, v |-> Num(N6379)] >>)

\* The declared fields the candidate mapping m offends: a field without a
\* default that m lacks, or a numeric field for which m holds a string that
\* is no number.
Offending(m) ==
    {i \in 1..Len(schema.shape) :
        LET field == schema.shape[i]
        IN  \/ field.default = Undefined /\ ~Has(m, field.name)
            \/ /\ field.type = "coerceNumber"
               /\ Has(m, field.name)
               /\ \E c \in 1..Len(Get(m, field.name).v) :
                      Get(m, field.name).v[c] \notin Digits}

\* C4: when the candidate mapping lacks a required field without default, or
\* holds a value that cannot be coerced to the declared type, the load
\* throws the schema's validation error as the schema raised it, naming
\* exactly the offending fields; nothing is returned, and the candidate
\* mapping handed to the schema holds nothing but entries derived from
\* environment variables (the mapper fills in no value of its own).
C4_ValidationErrorPropagates ==
    (Loaded /\ envValues.kind = "return" /\ Offending(envValues.value) # {}) =>
        /\ ret.kind = "throw"
        /\ ret.value.name = "ZodError"
        /\ {ret.value.issues[j] : j \in 1..Len(ret.value.issues)}
               = {schema.shape[i].name : i \in Offending(envValues.value)}
        /\ Len(ret.value.issues) = Cardinality(Offending(envValues.value))
        /\ ret = schemaParse(schema, envValues.value)
        /\ \A j \in 1..Len(envValues.value) :
               \E i \in 1..Len(env) :
                   DerivedFrom(envValues.value[j], env[i],
                               prefixOf(call.options), separatorOf(call.options))

\* C4 witnesses: a required field is missing; a value is not coercible.
C4_Witness ==
    /\ Loaded
    /\ schema = RedisConfigSchema
    /\ envValues.kind = "return"
    /\ AsMap(envValues.value) = { <<PORT_F, Str(REDIS_EXAMPLE_COM)>> }
    /\ ret = Throw(ZodError(<<PORT_F>>))

C4_WitnessRequired ==
    /\ Loaded
    /\ schema = OpenAIConfigSchema
    /\ envValues = Return(<<>>)
    /\ ret = Throw(ZodError(<<API_KEY_F>>))

\* The suffixes that make a key sensitive, and the test the claim states.
SensitiveSuffixes ==
    { <<"p", "a", "s", "s", "w", "o", "r", "d">>,
      <<"p", "w">>,
      <<"k", "e", "y">>,
      <<"s", "e", "c", "r", "e", "t">>,
      <<"c", "r", "e", "d", "e", "n", "t", "i", "a", "l", "s">> }

EndsWithSensitiveSuffix(k) == \E s \in SensitiveSuffixes : endsWith(toLowerCase(k), s)

\* C5: getPrintableConfig returns a mapping with exactly the input's keys;
\* the value of a key whose lower-cased name ends with password, pw, key,
\* secret or credentials is the masked form of the input's value, and every
\* other value is the input's value.
C5_PrintableMasksSensitiveKeys ==
    call.op = "getPrintableConfig" =>
        /\ ret.kind = "return"
        /\ Len(ret.value) = Len(call.config)
        /\ Keys(ret.value) = Keys(call.config)
        /\ \A k \in Keys(call.config) :
               Get(ret.value, k) =
                   IF EndsWithSensitiveSuffix(k)
                   THEN Str(maskValue(Get(call.config, k)))
                   ELSE Get(call.config, k)

\* C5 witness: {api_key: "secret123", password: "mypassword", host:
\* "localhost"} prints as {api_key: "se...23", password: "my...rd", host:
\* "localhost"}.
C5_Witness ==
    /\ call = [op |-> "getPrintableConfig", config |-> SecretsExample]
    /\ AsMap(ret.value) = { <<API_KEY_F, Str(<<"s", "e", ".", ".", ".", "2", "3">>)>>,
                            <<<<"p", "a", "s", "s", "w", "o", "r", "d">>, Str(<<"m", "y", ".", ".", ".", "r", "d">>)>>,
                            <<HOST_F, Str(LOCALHOST)>> }

\* The printable value of a sensitive key that holds string v, whenever the
\* last operation printed a config with such a key.
MaskOfEveryString(expected(_), applies(_)) ==
    call.op = "getPrintableConfig" =>
        \A i \in 1..Len(call.config) :
            LET k == call.config[i].k
                value == call.config[i].v
            IN  (EndsWithSensitiveSuffix(k) /\ value.t = "string" /\ applies(value.v)) =>
                    Get(ret.value, k) = Str(expected(value.v))

FirstTwoDotsLastTwo(v) == <<v[1], v[2], ".", ".", ".", v[Len(v) - 1], v[Len(v)]>>
MaskAsStated(v) == IF Len(v) <= 4 THEN <<"*", "*", "*", "*">> ELSE FirstTwoDotsLastTwo(v)
AnyString(v) == TRUE
NonEmpty(v) == v # <<>>

\* C6 as stated: a string of length <= 4 is masked as "****", a longer one as
\* its first two characters, "...", and its last two characters.
C6_AsStated == MaskOfEveryString(MaskAsStated, AnyString)

\* C6, amended: a non-empty string of length <= 4 is masked as "****", a
\* string longer than 4 as its first two characters, "...", and its last
\* two characters.
C6_MaskOfString == MaskOfEveryString(MaskAsStated, NonEmpty)

\* C6 witness: secrets of length 4 and of length 5 have been masked.
C6_Witness ==
    /\ call.op = "getPrintableConfig"
    /\ call.config = <<[k |-> <<"p", "a", "s", "s", "w", "o", "r", "d">>, v |-> Str(<<"a", "b", "b", "a", "b">>)]>>
    /\ ret.value = <<[k |-> <<"p", "a", "s", "s", "w", "o", "r", "d">>, v |-> Str(<<"a", "b", ".", ".", ".", "a", "b">>)]>>

C6_WitnessShort ==
    /\ call.op = "getPrintableConfig"
    /\ call.config = <<[k |-> <<"p", "a", "s", "s", "w", "o", "r", "d">>, v |-> Str(<<"a", "b", "b", "a">>)]>>
    /\ ret.value = <<[k |-> <<"p", "a", "s", "s", "w", "o", "r", "d">>, v |-> Str(<<"*", "*", "*", "*">>)]>>

\* C7: getExtraConfigs returns exactly the entries of config whose key the
\* schema does not declare, with their values.
C7_ExtrasAreTheUndeclaredEntries ==
    call.op = "getExtraConfigs" =>
        /\ ret.kind = "return"
        /\ AsMap(ret.value) =
               {kv \in AsMap(call.config) :
                   \A i \in 1..Len(schema.shape) : schema.shape[i].name # kv[1]}
        /\ Len(ret.value) = Cardinality(Keys(ret.value))

\* C7 witness: a config with the declared key host and an undeclared key
\* gives the undeclared entry alone.
C7_Witness ==
    /\ call.op = "getExtraConfigs"
    /\ schema = RedisConfigSchema
    /\ call.config = << [k |-> HOST_F, v |-> Str(LOCALHOST)],
                        [k |-> <<"e", "x", "t", "r", "a", "1">>, v |-> Str(SECRET123)] >>
    /\ ret.value = << [k |-> <<"e", "x", "t", "r", "a", "1">>, v |-> Str(SECRET123)] >>

\* C8: getExtraConfigs of a config whose keys are all declared by the
\* schema is the empty mapping.
C8_NoExtrasWhenAllDeclared ==
    (/\ call.op = "getExtraConfigs"
     /\ \A k \in Keys(call.config) :
            \E i \in 1..Len(schema.shape) : schema.shape[i].name = k) =>
        ret = Return(<<>>)

\* C8 witness: a config of two declared keys has no extras.
C8_Witness ==
    /\ call.op = "getExtraConfigs"
    /\ Keys(call.config) = {HOST_F, PORT_F}
    /\ ret = Return(<<>>)

\* A load with a pass-through schema and the default separator has returned
\* a config.
PassthroughLoaded ==
    /\ Loaded
    /\ schema.unknownKeys = "passthrough"
    /\ call.options.separator = Undefined
    /\ ret.kind = "return"

Declared(name) == \E i \in 1..Len(schema.shape) : schema.shape[i].name = name

\* C9 as stated: with a pass-through schema and prefix P, every variable
\* P + SUFFIX that holds a string and whose derived name is not a declared
\* field is in the parsed config under lower-case(SUFFIX) with its raw value.
C9_AsStated ==
    PassthroughLoaded =>
        \A i \in 1..Len(env) :
            LET P == prefixOf(call.options)
                SUFFIX == sliceFrom(env[i].k, Len(P))
            IN  (/\ env[i].v # Undefined
                 /\ startsWith(env[i].k, P)
                 /\ ~Declared(toLowerCase(SUFFIX))) =>
                    <<toLowerCase(SUFFIX), env[i].v>> \in AsMap(ret.value)

\* C9, amended: with a pass-through schema, prefix P and the default
\* separator, every variable named upper-case(P) + SUFFIX that holds a
\* string, whose derived name lower-case(SUFFIX) is not a declared field,
\* and after which no variable deriving the same name is iterated, is in the
\* config a successful load returns, under lower-case(SUFFIX) with its raw
\* value.
C9_UndeclaredSurvives ==
    PassthroughLoaded =>
        \A i \in 1..Len(env) :
            LET P == prefixOf(call.options)
                SUFFIX == sliceFrom(env[i].k, Len(P))
            IN  (/\ env[i].v # Undefined
                 /\ startsWith(env[i].k, toUpperCase(P))
                 /\ ~Declared(toLowerCase(SUFFIX))
                 /\ LastDeriving(env[i].k, toLowerCase(SUFFIX), P)) =>
                    <<toLowerCase(SUFFIX), env[i].v>> \in AsMap(ret.value)

\* C9 witness: REDIS_HOST and REDIS_EXTRA1 loaded with prefix "REDIS_"
\* into the pass-through schema give a config that holds extra1 with the
\* variable's raw value.
C9_Witness ==
    /\ PassthroughLoaded
    /\ prefixOf(call.options) = REDIS_
    /\ Keys(env) = {REDIS_HOST, REDIS_EXTRA1}
    /\ <<<<"e", "x", "t", "r", "a", "1">>, Get(env, REDIS_EXTRA1)>> \in AsMap(ret.value)
    /\ Keys(ret.value) = {HOST_F, PORT_F, DEBUG_F, <<"e", "x", "t", "r", "a", "1">>}

\* C10: a load (fromEnv, loadConfig, createSettings) leaves the environment
\* and the schema as they were; a view (getPrintableConfig, getExtraConfigs)
\* leaves the environment, the schema, and the config object passed to it
\* (the config the preceding load returned) as they were.
C10_InputsUnchanged ==
    [][/\ call'.op \in {"fromEnv", "loadConfig", "createSettings"} =>
              env' = env /\ schema' = schema
       /\ call'.op \in {"getPrintableConfig", "getExtraConfigs"} =>
              env' = env /\ schema' = schema /\ config' = ret.value]_vars

\* C10 witness: getPrintableConfig has returned a masked mapping that
\* differs from the config passed to it, which is still the loaded one, over
\* a non-empty environment.
C10_Witness ==
    /\ call.op = "getPrintableConfig"
    /\ env # <<>>
    /\ config = call.config
    /\ ret.value # config
    /\ Keys(ret.value) = Keys(config)

\* C11 as stated: a variable (with a defined value) whose name starts with
\* the prefix, letter case ignored, is in the candidate mapping under the
\* lower-cased suffix.
C11_AsStated ==
    (Collected /\ call.options.separator = Undefined) =>
        \A i \in 1..Len(env) :
            LET P == prefixOf(call.options)
            IN  (env[i].v # Undefined /\ startsWithIgnoringCase(env[i].k, P)) =>
                    Has(envValues.value, toLowerCase(sliceFrom(env[i].k, Len(P))))

\* C11, amended: the prefix is upper-cased and then matched as it is: with
\* the default separator, a variable with a defined value whose name is the
\* upper-cased prefix followed by a suffix in any letter case is in the
\* candidate mapping under the lower-cased suffix.
C11_UpperCasedPrefixMatched ==
    (Collected /\ call.options.separator = Undefined) =>
        \A i \in 1..Len(env) :
            LET P == prefixOf(call.options)
            IN  (env[i].v # Undefined /\ startsWith(env[i].k, toUpperCase(P))) =>
                    Has(envValues.value, toLowerCase(sliceFrom(env[i].k, Len(P))))

\* C11 witness: with prefix "redis_", REDIS_Host alone is collected as host.
C11_Witness ==
    /\ Collected
    /\ call.options = Options(Str(redis_), Undefined)
    /\ Keys(env) = {REDIS_Host}
    /\ Keys(envValues.value) = {HOST_F}

\* C12: collection, field-name derivation, masking and extras-extraction
\* always return: a load collects a candidate mapping whatever the prefix
\* and the separator are, the only failure of a load is the schema's
\* validation error, and the two views return.
C12_OnlyValidationFails ==
    /\ call.op \in {"fromEnv", "loadConfig", "createSettings"} =>
           /\ envValues.kind = "return"
           /\ ret.kind = "throw" => ret.value.name = "ZodError"
    /\ call.op \in {"getPrintableConfig", "getExtraConfigs"} => ret.kind = "return"

\* s with every literal occurrence of the non-empty string sep replaced by
\* "_", from index i on.
RECURSIVE replaceLiteralFrom(_, _, _)
replaceLiteralFrom(s, sep, i) ==
    IF i > Len(s)
    THEN <<>>
    ELSE IF i + Len(sep) - 1 <= Len(s) /\ \A j \in 1..Len(sep) : s[i + j - 1] = sep[j]
    THEN <<"_">> \o replaceLiteralFrom(s, sep, i + Len(sep))
    ELSE <<s[i]>> \o replaceLiteralFrom(s, sep, i + 1)

\* C13: with the default separator the field name is the lower-cased input;
\* with another separator s it is the input with every literal occurrence
\* of s, and nothing else, replaced by "_", then lower-cased.  Stated of the
\* names a load derives: every variable that holds a string and carries the
\* upper-cased prefix is collected under that name of its remainder.
C13_LiteralSeparatorReplaced ==
    Collected =>
        \A i \in 1..Len(env) :
            LET P == prefixOf(call.options)
                s == separatorOf(call.options)
                input == sliceFrom(env[i].k, Len(P))
                fieldName == IF s = <<"_">>
                             THEN toLowerCase(input)
                             ELSE toLowerCase(replaceLiteralFrom(input, s, 1))
            IN  (env[i].v # Undefined /\ startsWith(env[i].k, toUpperCase(P))) =>
                    Has(envValues.value, fieldName)

\* Variable i of the environment holds a string, carries the upper-cased
\* prefix of the call and derives the field name n.
Derives(i, n) ==
    LET P == prefixOf(call.options)
        name == toFieldName(sliceFrom(env[i].k, Len(P)), separatorOf(call.options))
    IN  /\ env[i].v # Undefined
        /\ startsWith(env[i].k, toUpperCase(P))
        /\ name = Return(n)

\* C14: when several variables derive the same field name, the candidate
\* mapping holds one entry for the name, with the value of the variable
\* iterated last among them, and collection itself raises nothing.
C14_LastVariableWins ==
    Collected =>
        /\ Len(envValues.value) = Cardinality(Keys(envValues.value))
        /\ \A i \in 1..Len(env), n \in Keys(envValues.value) :
               (Derives(i, n) /\ \A j \in (i + 1)..Len(env) : ~Derives(j, n)) =>
                   Get(envValues.value, n) = env[i].v
        /\ ret.kind = "throw" => ret.value.name = "ZodError"

\* C14 witness: REDIS_HOST=6380 then REDIS_Host=redis.example.com, loaded
\* with prefix "REDIS_", are collected as the one entry host =
\* redis.example.com.
C14_Witness ==
    /\ Collected
    /\ call.options = Options(Str(REDIS_), Undefined)
    /\ env = << [k |-> REDIS_HOST, v |-> Str(V6380)],
                [k |-> REDIS_Host, v |-> Str(REDIS_EXAMPLE_COM)] >>
    /\ envValues.value = << [k |-> HOST_F, v |-> Str(REDIS_EXAMPLE_COM)] >>

\* The candidate mapping is the one the environment of this state gives:
\* one entry per derived name, valued by the last variable deriving it.
CandidateOfEnvironment ==
    /\ envValues.kind = "return"
    /\ Len(envValues.value) = Cardinality(Keys(envValues.value))
    /\ \A j \in 1..Len(envValues.value) :
           \E i \in 1..Len(env) :
               /\ Derives(i, envValues.value[j].k)
               /\ \A l \in (i + 1)..Len(env) : ~Derives(l, envValues.value[j].k)
               /\ envValues.value[j].v = env[i].v
    /\ \A i \in 1..Len(env) :
           (env[i].v # Undefined /\ startsWith(env[i].k, toUpperCase(prefixOf(call.options)))) =>
               \E j \in 1..Len(envValues.value) : Derives(i, envValues.value[j].k)

\* The declared fields of a returned config come from the candidate mapping
\* of this state or from the schema's defaults.
ResultOfCandidate ==
    IF ret.kind = "throw"
    THEN \E i \in 1..Len(schema.shape) :
             LET field == schema.shape[i]
             IN  \/ ~Has(envValues.value, field.name) /\ field.default = Undefined
                 \/ /\ Has(envValues.value, field.name)
                    /\ field.type = "coerceNumber"
                    /\ ~isDigits(Get(envValues.value, field.name).v)
    ELSE \A i \in 1..Len(schema.shape) :
             LET field == schema.shape[i]
             IN  Get(ret.value, field.name) =
                     IF Has(envValues.value, field.name)
                     THEN Coercion(field, Get(envValues.value, field.name).v)
                     ELSE Coercion(field, field.default.v)

\* C15: fromEnv keeps nothing between calls.  Whatever calls and changes of
\* the environment came before, the result of a call is the one the
\* environment of that moment, the schema and the options give; and a call
\* that follows a call with the same options, the environment not having
\* changed in between, has the same result.
C15_NoStateBetweenCalls ==
    /\ [](call.op = "fromEnv" => CandidateOfEnvironment /\ ResultOfCandidate)
    /\ [][(call.op = "fromEnv" /\ call'.op = "fromEnv" /\ call'.options = call.options)
              => ret' = ret]_vars

\* C15 witness: a call has returned a config that differs from the config
\* the call before it returned: the environment changed between the two.
C15_Witness ==
    /\ call.op = "fromEnv"
    /\ ret.kind = "return"
    /\ config # <<>>
    /\ ret.value # config
    /\ Get(ret.value, HOST_F) = Str(REDIS_EXAMPLE_COM)
    /\ Get(config, HOST_F) = Str(LOCALHOST)

\* C16: loadConfig(schema, options) gives what fromEnv(schema, options)
\* gives, the same result or the same error, and for both it is the
\* schema's validation of the candidate mapping collected with the given
\* prefix (default empty) and separator (default "_").
C16_LoadConfigIsFromEnv ==
    /\ call.op = "loadConfig" =>
           /\ ret = fromEnv(env, schema, call.options).result
           /\ envValues = fromEnv(env, schema, call.options).envValues
    /\ Loaded =>
           LET prefix == IF call.options.prefix = Undefined
                         THEN <<>> ELSE call.options.prefix.v
               separator == IF call.options.separator = Undefined
                            THEN <<"_">> ELSE call.options.separator.v
           IN  /\ envValues = collectEnvValues(env, prefix, separator)
               /\ ret = IF envValues.kind = "return"
                        THEN schemaParse(schema, envValues.value)
                        ELSE envValues

\* C16 witness: loadConfig with prefix "REDIS_" and separator "." has
\* returned a config for a non-empty environment.
C16_Witness ==
    /\ call = [op |-> "loadConfig", options |-> Options(Str(REDIS_), Str(<<".">>))]
    /\ Len(env) = 2
    /\ Len(envValues.value) = 1
    /\ ret.kind = "return"

\* C17: createSettings returns envFile ".env" and caseSensitive false when
\* the options give none, the supplied values when they give them, and as
\* config the schema's validation of the whole environment (no prefix, the
\* default separator); when that validation fails, its error.
C17_SettingsDefaultsAndOptions ==
    call.op = "createSettings" =>
        LET validated == schemaParse(schema, collectEnvValues(env, <<>>, <<"_">>).value)
        IN  IF validated.kind = "throw"
            THEN ret = validated
            ELSE /\ ret.kind = "return"
                 /\ ret.value.config = validated.value
                 /\ ret.value.envFile =
                        IF call.options.envFile = Undefined
                        THEN Str(<<".", "e", "n", "v">>) ELSE call.options.envFile
                 /\ ret.value.caseSensitive =
                        IF call.options.caseSensitive = Undefined
                        THEN Bool(FALSE) ELSE call.options.caseSensitive

\* C17 witness: createSettings(OpenAIConfigSchema) without options over
\* API_KEY=6380 returns envFile ".env", caseSensitive false and a config
\* with api_key "6380".
C17_Witness ==
    /\ call = [op |-> "createSettings",
               options |-> [envFile |-> Undefined, caseSensitive |-> Undefined]]
    /\ schema = OpenAIConfigSchema
    /\ ret.kind = "return"
    /\ ret.value.envFile = Str(<<".", "e", "n", "v">>)
    /\ ret.value.caseSensitive = Bool(FALSE)
    /\ Get(ret.value.config, API_KEY_F) = Str(V6380)

\* C18: for a sensitive key, the printable value is "<not set>" when the
\* value is null, undefined or the empty string, and "****" when it is
\* anything else that is not a string (a number, a boolean, an object).
C18_MarkersOfNonStrings ==
    call.op = "getPrintableConfig" =>
        \A i \in 1..Len(call.config) :
            LET k == call.config[i].k
                value == call.config[i].v
            IN  EndsWithSensitiveSuffix(k) =>
                    /\ (value.t \in {"null", "undefined"} \/ value = Str(<<>>)) =>
                           Get(ret.value, k) =
                               Str(<<"<", "n", "o", "t", " ", "s", "e", "t", ">">>)
                    /\ value.t \in {"number", "boolean", "object"} =>
                           Get(ret.value, k) = Str(<<"*", "*", "*", "*">>)

\* C18 witness: {password: null} has been printed as {password: "<not set>"}.
C18_Witness ==
    /\ call.op = "getPrintableConfig"
    /\ call.config = <<[k |-> <<"p", "a", "s", "s", "w", "o", "r", "d">>, v |-> Null]>>
    /\ ret.value = <<[k |-> <<"p", "a", "s", "s", "w", "o", "r", "d">>,
                      v |-> Str(<<"<", "n", "o", "t", " ", "s", "e", "t", ">">>)]>>

\* {password: false} has been printed as {password: "****"}.
C18_WitnessBoolean ==
    /\ call.op = "getPrintableConfig"
    /\ call.config = <<[k |-> <<"p", "a", "s", "s", "w", "o", "r", "d">>, v |-> Bool(FALSE)]>>
    /\ ret.value = <<[k |-> <<"p", "a", "s", "s", "w", "o", "r", "d">>,
                      v |-> Str(<<"*", "*", "*", "*">>)]>>

\* C19: the prefix is upper-cased and the name is matched against it as it
\* is: the candidate mapping holds exactly the names derived, after that many
\* characters are stripped, from the variables that hold a defined value and
\* whose name starts with the upper-cased prefix; an entry whose value is
\* undefined contributes nothing.
C19_UpperCasedPrefixSelects ==
    Collected =>
        LET P == prefixOf(call.options)
            selected == {i \in 1..Len(env) :
                            /\ env[i].v # Undefined
                            /\ startsWith(env[i].k, toUpperCase(P))}
        IN  /\ Keys(envValues.value) =
                   {toFieldName(sliceFrom(env[i].k, Len(P)),
                                separatorOf(call.options)).value : i \in selected}
            /\ \A j \in 1..Len(envValues.value) :
                   /\ envValues.value[j].v # Undefined
                   /\ \E i \in selected : envValues.value[j].v = env[i].v

\* C19 witness: with prefix "redis_", REDIS_HOST=undefined and
\* REDIS_PORT=6380 are collected as the one entry port = "6380".
C19_Witness ==
    /\ Collected
    /\ call.options = Options(Str(redis_), Undefined)
    /\ AsMap(env) = { <<REDIS_HOST, Undefined>>, <<REDIS_PORT, Str(V6380)>> }
    /\ envValues.value = << [k |-> PORT_F, v |-> Str(V6380)] >>

\* LOGGING_LEVELS_FILE names a readable file of the working directory with
\* a supported extension whose text parses to an object.
ValidLevelsFile(processEnv, fs) ==
    LET name == Get(processEnv, LOGGING_LEVELS_FILE)
        path == Append(CWD, name.v)
        ext == toLowerCase(extname(path))
    IN  /\ name.t = "string"
        /\ name.v # <<>>
        /\ Has(fs, path)
        /\ Get(fs, path).readable
        /\ \/ ext = <<".", "j", "s", "o", "n">> /\ Get(fs, path).text = TEXT_JSON
           \/ /\ ext \in {<<".", "y", "a", "m", "l">>, <<".", "y", "m", "l">>}
              /\ Get(fs, path).text \in {TEXT_JSON, TEXT_YAML}

\* LOGGING_LEVELS holds a text that parses, as JSON or as YAML, to an object.
ValidLevelsVariable(processEnv) ==
    /\ Get(processEnv, LOGGING_LEVELS).t = "string"
    /\ Get(processEnv, LOGGING_LEVELS).v \in {TEXT_JSON, TEXT_YAML, TEXT_EMPTY_KEY}

\* The call resolves no levels: loggingLevels is null, or it is undefined
\* and neither LOGGING_LEVELS_FILE nor LOGGING_LEVELS is valid.
ResolvesNoLevels(options, processEnv, fs) ==
    \/ options.loggingLevels.t = "null"
    \/ /\ options.loggingLevels.t = "undefined"
       /\ ~ValidLevelsFile(processEnv, fs)
       /\ ~ValidLevelsVariable(processEnv)

C20_WitnessFromEnvironment ==
    /\ call.op = "configureLogging"
    /\ call.options.loggingLevels.t = "undefined"
    /\ stderr # <<>>
    /\ rootLogger.id = 2
    /\ loggerLevels = << [k |-> WEB, v |-> Str(ERROR_LEVEL)] >>

----------------------------------------------------------------------------
(* Claims on the logging half (SpecLoggers).                               *)

\* The levels a configureLogging call would read from the environment it
\* left: the return value of loadLoggingLevelsFromEnv.
LevelsOfEnvironment == loadLoggingLevelsFromEnv(env, files).value

\* C21: a configureLogging call with loggingLevels null reads the
\* per-logger levels from LOGGING_LEVELS: when that variable holds a valid
\* object (and no levels file is named), the table after the call is the
\* one loaded from it.
C21_NullReadsEnvironment ==
    (/\ call.op = "configureLogging"
     /\ call.options.loggingLevels.t = "null"
     /\ ~Has(env, LOGGING_LEVELS_FILE)
     /\ ValidLevelsVariable(env)) =>
        loggerLevels = LevelsOfEnvironment.v

\* The proper prefixes of name that end before one of its dots: its
\* ancestors' names.
Ancestors(name) == {SubSeq(name, 1, i - 1) : i \in {j \in 1..Len(name) : name[j] = "."}}

\* The ancestors of name that have an entry of their own in the table.
EnteredAncestors(levels, name) == {a \in Ancestors(name) : Has(levels, a)}

\* The longest of a non-empty set of ancestors: the nearest one.
Nearest(ancestors) == CHOOSE a \in ancestors : \A b \in ancestors : Len(b) <= Len(a)

\* C22: getLogger resolves the level hierarchically.  An entry for the name
\* itself wins; otherwise the entry of the nearest ancestor that has one is
\* used; a name with no entry of its own and none for any ancestor gets no
\* override.
C22_HierarchicalResolution ==
    call.op = "getLogger" =>
        LET name == call.name
            entered == EnteredAncestors(loggerLevels, name)
        IN  ret.value.override =
                IF Has(loggerLevels, name) THEN Get(loggerLevels, name)
                ELSE IF entered # {} THEN Get(loggerLevels, Nearest(entered))
                ELSE Undefined

\* The levels loaded from the texts of the model: {app: "debug",
\* "db.pool": "warn"} from the JSON text, {app: "info"} from the YAML text,
\* {pool: "warn"} from the text whose outer key is empty.
LevelsOfText(text) ==
    IF text = TEXT_JSON
    THEN << [k |-> APP, v |-> Str(DEBUG_LEVEL)], [k |-> DB_POOL, v |-> Str(WARN_LEVEL)] >>
    ELSE IF text = TEXT_EMPTY_KEY
    THEN << [k |-> POOL, v |-> Str(WARN_LEVEL)] >>
    ELSE << [k |-> APP, v |-> Str(<<"i", "n", "f", "o">>)] >>

\* LOGGING_LEVELS_FILE names a file; LOGGING_LEVELS holds a text.
NamesLevelsFile(processEnv) ==
    Get(processEnv, LOGGING_LEVELS_FILE).t = "string" /\ Get(processEnv, LOGGING_LEVELS_FILE).v # <<>>
HoldsLevelsText(processEnv) ==
    Get(processEnv, LOGGING_LEVELS).t = "string" /\ Get(processEnv, LOGGING_LEVELS).v # <<>>

\* The warnings a resolution from the environment owes: one for a named
\* file that is not valid, one for a held text that is not valid and was
\* looked at.
WarningsOwed(processEnv, fs) ==
    (IF NamesLevelsFile(processEnv) /\ ~ValidLevelsFile(processEnv, fs) THEN 1 ELSE 0)
        + (IF /\ ~ValidLevelsFile(processEnv, fs)
              /\ HoldsLevelsText(processEnv)
              /\ ~ValidLevelsVariable(processEnv)
           THEN 1 ELSE 0)

\* C23: with loggingLevels undefined, configureLogging always returns and
\* replaces the root logger, and it resolves the levels from
\* LOGGING_LEVELS_FILE before LOGGING_LEVELS: a valid file's levels are
\* installed whatever the variable holds; with the file missing,
\* unreadable, unparseable, of an unsupported extension or not an object,
\* a valid variable's levels are installed; with neither valid the result
\* is null and the table is left alone.  Each failure writes one warning.
C23_FileBeforeVariable ==
    [][(call'.op = "configureLogging" /\ call'.options.loggingLevels.t = "undefined") =>
           /\ ret' = Return(Undefined)
           /\ rootLogger'.id = rootLogger.id + 1
           /\ Len(stderr') = WarningsOwed(env', files')
           /\ loggerLevels' =
                  IF ValidLevelsFile(env', files')
                  THEN LevelsOfText(Get(files', Append(CWD, Get(env', LOGGING_LEVELS_FILE).v)).text)
                  ELSE IF ValidLevelsVariable(env')
                  THEN LevelsOfText(Get(env', LOGGING_LEVELS).v)
                  ELSE loggerLevels]_vars

\* C23 witness: a valid levels file was used although LOGGING_LEVELS holds
\* other valid levels.
C23_Witness ==
    /\ call.op = "configureLogging"
    /\ call.options.loggingLevels.t = "undefined"
    /\ ValidLevelsFile(env, files)
    /\ Get(env, LOGGING_LEVELS) = Str(TEXT_YAML)
    /\ loggerLevels = LevelsOfText(TEXT_JSON)
    /\ stderr = <<>>

\* The levels file failed to parse and the variable's levels were used,
\* after one warning.
C23_WitnessFallback ==
    /\ call.op = "configureLogging"
    /\ call.options.loggingLevels.t = "undefined"
    /\ Get(env, LOGGING_LEVELS_FILE) = Str(LEVELS_YML)
    /\ Get(files, Append(CWD, LEVELS_YML)) = File(TEXT_BAD, TRUE)
    /\ Get(env, LOGGING_LEVELS) = Str(TEXT_YAML)
    /\ loggerLevels = LevelsOfText(TEXT_YAML)
    /\ Len(stderr) = 1

\* Neither was valid: two warnings, and the table an earlier call
\* installed is still in force under a new root logger.
C23_WitnessNull ==
    /\ call.op = "configureLogging"
    /\ call.options.loggingLevels.t = "undefined"
    /\ Len(stderr) = 2
    /\ rootLogger.id = 2
    /\ loggerLevels = << [k |-> WEB, v |-> Str(ERROR_LEVEL)] >>

\* The levels the claim gives the texts of the model: every nested key
\* joined to its parent's with a dot, non-string leaves dropped, levels
\* lower-cased.
StatedLevelsOfText(text) ==
    IF text = TEXT_JSON
    THEN << [k |-> APP, v |-> Str(DEBUG_LEVEL)], [k |-> DB_POOL, v |-> Str(WARN_LEVEL)] >>
    ELSE IF text = TEXT_EMPTY_KEY
    THEN << [k |-> <<".">> \o POOL, v |-> Str(WARN_LEVEL)] >>
    ELSE << [k |-> APP, v |-> Str(<<"i", "n", "f", "o">>)] >>

\* C24: levels loaded from LOGGING_LEVELS_FILE or LOGGING_LEVELS are
\* flattened and normalized (a nested {a: {b: L}} gives the one entry
\* "a.b", non-string leaves are dropped, levels are lower-cased); levels
\* given by the loggingLevels option are installed as they are.
C24_FlattenedAndNormalized ==
    call.op = "configureLogging" =>
        /\ call.options.loggingLevels.t = "object" =>
               loggerLevels = call.options.loggingLevels.v
        /\ (call.options.loggingLevels.t = "undefined" /\ ValidLevelsFile(env, files)) =>
               loggerLevels =
                   StatedLevelsOfText(Get(files, Append(CWD, Get(env, LOGGING_LEVELS_FILE).v)).text)
        /\ (/\ call.options.loggingLevels.t = "undefined"
            /\ ~ValidLevelsFile(env, files)
            /\ ValidLevelsVariable(env)) =>
               loggerLevels = StatedLevelsOfText(Get(env, LOGGING_LEVELS).v)

----------------------------------------------------------------------------
(* Claims on createSettings called repeatedly (SpecSettings).              *)

\* The variables of the environment that hold a value, under their
\* lower-cased names.
DefinedLowerCased ==
    { <<toLowerCase(env[i].k), env[i].v>> : i \in {j \in 1..Len(env) : env[j].v # Undefined} }

----------------------------------------------------------------------------
(* Claims on prefixes that end inside a segment (SpecBoundary).            *)

\* The variables a load with prefix P takes: those that hold a value and
\* whose name starts with the upper-cased prefix, whatever follows it.
StartingWith(P) ==
    {i \in 1..Len(env) : env[i].v # Undefined /\ startsWith(env[i].k, toUpperCase(P))}

\* The name with its first n characters removed, lower-cased.
LowerCasedRest(name, n) == toLowerCase(SubSeq(name, n + 1, Len(name)))

\* C26: prefix matching is a plain test that the name starts with the
\* upper-cased prefix, without regard to segments.  With a non-empty prefix
\* P (and the default separator), every variable whose name starts with P
\* is in the candidate mapping under its lower-cased name without the first
\* |P| characters, whether the prefix is followed by "_" (APP_HOST under
\* "_host"), by other characters (APPLE_X under "le_x") or by nothing (APP
\* under ""), and the mapping holds nothing else.
C26_RawPrefixTest ==
    (call.op = "fromEnv" /\ prefixOf(call.options) # <<>>) =>
        LET P == prefixOf(call.options)
        IN  /\ envValues.kind = "return"
            /\ Keys(envValues.value) = {LowerCasedRest(env[i].k, Len(P)) : i \in StartingWith(P)}
            /\ Has(env, APP_HOST) => Has(envValues.value, <<"_", "h", "o", "s", "t">>)
            /\ Has(env, APPLE_X) => Has(envValues.value, <<"l", "e", "_", "x">>)
            /\ Has(env, APP_P) => Has(envValues.value, <<>>)
            /\ ~Has(envValues.value, <<"a", "p", "i", "_", "k", "e", "y">>)

\* C26 witness: with prefix "app", APPLE_X and APP have been collected as
\* the entries "le_x" and "".
C26_Witness ==
    /\ call = [op |-> "fromEnv", options |-> Options(Str(<<"a", "p", "p">>), Undefined)]
    /\ Keys(env) = {APPLE_X, APP_P}
    /\ envValues.kind = "return"
    /\ Keys(envValues.value) = {<<"l", "e", "_", "x">>, <<>>}

----------------------------------------------------------------------------
(* Claims on what the printable view lets through (SpecViews).             *)

\* Two strings longer than 4 with the same first two and the same last two
\* characters.
SameEnds(v, w) ==
    /\ v.t = "string" /\ w.t = "string"
    /\ Len(v.v) > 4 /\ Len(w.v) > 4
    /\ SubSeq(v.v, 1, 2) = SubSeq(w.v, 1, 2)
    /\ SubSeq(v.v, Len(v.v) - 1, Len(v.v)) = SubSeq(w.v, Len(w.v) - 1, Len(w.v))

\* A non-empty string of length <= 4.
ShortString(v) == v.t = "string" /\ Len(v.v) \in 1..4

\* Configs d and c have the same keys in the same order and differ at most
\* in values of sensitive keys that alike(_, _) relates.
DifferOnlyIn(alike(_, _), c, d) ==
    /\ Len(d) = Len(c)
    /\ \A i \in 1..Len(c) :
           /\ d[i].k = c[i].k
           /\ \/ d[i].v.t = c[i].v.t /\ d[i].v = c[i].v
              \/ EndsWithSensitiveSuffix(c[i].k) /\ alike(c[i].v, d[i].v)

\* The configs the printed one is compared with: a single secret of every
\* length, and of every kind of value.
ComparedConfigs == SecretConfigs \cup MarkerConfigs

\* The values of sensitive keys in the view are "<not set>", "****" or two
\* characters, "...", two characters; and every compared config that
\* differs from the printed one only as alike(_, _) allows has the same
\* view.
LeaksAtMost(alike(_, _)) ==
    call.op = "getPrintableConfig" =>
        /\ \A i \in 1..Len(ret.value) :
               EndsWithSensitiveSuffix(ret.value[i].k) =>
                   /\ ret.value[i].v.t = "string"
                   /\ \/ ret.value[i].v.v = <<"<", "n", "o", "t", " ", "s", "e", "t", ">">>
                      \/ ret.value[i].v.v = <<"*", "*", "*", "*">>
                      \/ /\ Len(ret.value[i].v.v) = 7
                         /\ SubSeq(ret.value[i].v.v, 3, 5) = <<".", ".", ".">>
        /\ \A d \in ComparedConfigs :
               DifferOnlyIn(alike, call.config, d) => getPrintableConfig(d) = ret.value

\* The differences the claim allows: the middle of a long secret, or which
\* short string or non-string value the key holds.
AlikeAsStated(v, w) ==
    \/ SameEnds(v, w)
    \/ (ShortString(v) \/ v.t # "string") /\ (ShortString(w) \/ w.t # "string")

\* The same, null and undefined not being among the non-string values.
AlikePresent(v, w) ==
    \/ SameEnds(v, w)
    \/ /\ ShortString(v) \/ v.t \notin {"string", "null", "undefined"}
       /\ ShortString(w) \/ w.t \notin {"string", "null", "undefined"}

\* C27 as stated: the view of a sensitive value is "<not set>", "****" or
\* a 7-character string, and two configs that differ only in the middle
\* (and the length) of a sensitive string longer than 4, or only in which
\* non-empty string of length <= 4 or which non-string value a sensitive
\* key holds, have the same view.
C27_AsStated == LeaksAtMost(AlikeAsStated)

\* C27, amended: the same, the non-string values being those other than
\* null and undefined.
C27_LeaksAtMostFourCharacters == LeaksAtMost(AlikePresent)

\* C27 witness: {password: "ababab"} has been printed as {password:
\* "ab...ab"}, which is also the view of {password: "abbab"}.
C27_Witness ==
    /\ call.op = "getPrintableConfig"
    /\ call.config = <<[k |-> <<"p", "a", "s", "s", "w", "o", "r", "d">>, v |-> Str(<<"a", "b", "a", "b", "a", "b">>)]>>
    /\ ret.value = <<[k |-> <<"p", "a", "s", "s", "w", "o", "r", "d">>, v |-> Str(<<"a", "b", ".", ".", ".", "a", "b">>)]>>
    /\ getPrintableConfig(<<[k |-> <<"p", "a", "s", "s", "w", "o", "r", "d">>, v |-> Str(<<"a", "b", "b", "a", "b">>)]>>) = ret.value

\* {password: 6379} has been printed as {password: "****"}, which is also
\* the view of {password: "a"}.
C27_WitnessShort ==
    /\ call.op = "getPrintableConfig"
    /\ call.config = <<[k |-> <<"p", "a", "s", "s", "w", "o", "r", "d">>, v |-> Num(N6379)]>>
    /\ ret.value = <<[k |-> <<"p", "a", "s", "s", "w", "o", "r", "d">>, v |-> Str(<<"*", "*", "*", "*">>)]>>
    /\ getPrintableConfig(<<[k |-> <<"p", "a", "s", "s", "w", "o", "r", "d">>, v |-> Str(<<"a">>)]>>) = ret.value

----------------------------------------------------------------------------
(* Claims on replacing the table and on the loggers handed out             *)
(* (SpecResolve, SpecLoggers).                                             *)

\* An earlier getLogger(name) was given an override by a table's entry.
HadOverride(name) ==
    \E i \in 1..Len(loggers) : loggers[i].name = name /\ loggers[i].override.t = "string"

\* C28: configureLogging with a loggingLevels object, the empty one
\* included, replaces the table instead of merging into it: the table after
\* the call is the object given, and a name that had an override from an
\* earlier table and has no entry, of its own or of an ancestor, in the
\* table now in force gets no override from getLogger.
C28_TableReplaced ==
    /\ (call.op = "configureLogging" /\ call.options.loggingLevels.t = "object") =>
           loggerLevels = call.options.loggingLevels.v
    /\ (/\ call.op = "getLogger"
        /\ HadOverride(call.name)
        /\ ~Has(loggerLevels, call.name)
        /\ EnteredAncestors(loggerLevels, call.name) = {}) =>
           ret.value.override = Undefined

\* The level the table in force gives a name: its own entry's, else its
\* nearest entered ancestor's, else none (<<>>).
LevelInForce(name) ==
    IF Has(loggerLevels, name) THEN Get(loggerLevels, name).v
    ELSE IF EnteredAncestors(loggerLevels, name) # {}
    THEN Get(loggerLevels, Nearest(EnteredAncestors(loggerLevels, name))).v
    ELSE <<>>

C29_WitnessAfter ==
    /\ call = [op |-> "getLogger", name |-> WEB]
    /\ rootLogger.id = 1
    /\ ret.value.root = 1
    /\ ret.value.level = ERROR_LEVEL
    /\ Len(loggers) = 1
    /\ loggers[1].root = 0

----------------------------------------------------------------------------
(* Claims on the .env file configureLogging loads (SpecDotenv).            *)

\* The directories searched, the working directory first, the root last.
SearchedDirectories == << CWD, SubSeq(CWD, 1, 1), <<>> >>

\* The first searched directory that holds a .env file, 0 when none does.
FirstWithDotenv(fs) ==
    IF \E n \in 1..3 : Has(fs, Append(SearchedDirectories[n], DOT_ENV))
    THEN CHOOSE n \in 1..3 :
             /\ Has(fs, Append(SearchedDirectories[n], DOT_ENV))
             /\ \A m \in 1..(n - 1) : ~Has(fs, Append(SearchedDirectories[m], DOT_ENV))
    ELSE 0

\* The text of the nearest .env file, <<>> when there is none or it cannot
\* be read.
NearestText(fs) ==
    LET n == FirstWithDotenv(fs)
        file == Get(fs, Append(SearchedDirectories[n], DOT_ENV))
    IN  IF n = 0 THEN <<>> ELSE IF file.readable THEN file.text ELSE <<>>

\* The environment after the assignment the text makes, which replaces the
\* value of a variable that is already there.
AfterAssignmentOf(text, processEnv) ==
    IF text = TEXT_DOTENV THEN Put(processEnv, REDIS_HOST, Str(V6380))
    ELSE IF text = TEXT_DOTENV_PORT THEN Put(processEnv, REDIS_PORT, Str(V6380))
    ELSE processEnv

\* C30: configureLogging changes the environment later loads see.  It
\* makes the assignments of the nearest .env file at or above the working
\* directory, and of no other, over the values the variables had; a load
\* with prefix "REDIS_" after it returns the file's value for the variable
\* the file assigns.
C30_DotenvOverridesEnvironment ==
    /\ [][call'.op = "configureLogging" =>
              env' = AfterAssignmentOf(NearestText(files), env)]_vars
    /\ []((/\ call.op = "fromEnv"
           /\ call.options = Options(Str(REDIS_), Undefined)
           /\ rootLogger.id > 0
           /\ ret.kind = "return") =>
              /\ NearestText(files) = TEXT_DOTENV => Get(ret.value, HOST_F) = Str(V6380)
              /\ NearestText(files) = TEXT_DOTENV_PORT => Get(ret.value, PORT_F) = Num(V6380))

\* C30 witness: a load after configureLogging has returned host "6380",
\* the value of the .env file of the working directory, where the load
\* before it returned "redis.example.com" from the environment; the
\* REDIS_PORT of the parent directory's .env file was not assigned.
C30_Witness ==
    /\ call = [op |-> "fromEnv", options |-> Options(Str(REDIS_), Undefined)]
    /\ rootLogger.id > 0
    /\ Has(files, Append(CWD, DOT_ENV))
    /\ Has(files, <<APP, DOT_ENV>>)
    /\ config # <<>>
    /\ Get(config, HOST_F) = Str(REDIS_EXAMPLE_COM)
    /\ ret.kind = "return"
    /\ Get(ret.value, HOST_F) = Str(V6380)
    /\ ~Has(env, REDIS_PORT)

====
